---- MODULE Spec2Model ----
(***************************************************************************)
(* A model of fluora-ai/core: the service enrichment pipeline              *)
(* (ServiceRegistryService), the execution orchestrator                    *)
(* (ServiceExecutionService), the connection cache (McpGatewayService) and *)
(* the payment validation flow (BlockchainPaymentService).                 *)
(*                                                                         *)
(* JavaScript values are modelled as tagged records (field t), so that the *)
(* run-time shape checks of the code (typeof, Array.isArray, 'x' in y,     *)
(* truthiness, ===) are computed, not assumed.  Texts are TLA+ strings and *)
(* JSON.parse is a table over the texts the remote servers of the model    *)
(* can send.                                                               *)
(***************************************************************************)
EXTENDS Integers, Sequences, FiniteSets, TLC

VARIABLES
    connections,   \* McpGatewayService.connections: url -> client (or NoClient)
    disconnected,  \* the clients on which disconnect() has been called
    runs,          \* number of exploreAndEnrichServices calls started
    run,           \* the arguments and limitedServers of the current enrichment call
    task,          \* per explored server: the state of its async exploration
    registry,      \* the ServiceRegistry the current enrichment call returned
    calls,         \* executeService invocations: call id -> state of the call
    payment,       \* the current validateAndSettlePayment attempt
    ops,           \* direct McpGatewayService operations: op id -> state of the call
    signing,       \* the current createSignedTransaction call
    validation,    \* the last validateServiceParams call
    parsing,       \* the last tool result handed to the two parseToolResult
    remote         \* the tools a remote server with fixed responses implements

vars == <<connections, disconnected, runs, run, task, registry, calls, payment, ops,
          signing, validation, parsing, remote>>

gatewayVars == <<connections, disconnected>>
enrichVars == <<runs, run, task, registry>>

----------------------------------------------------------------------------
(* Bounds of the model *)

\* longest server list handed to exploreAndEnrichServices
MaxServers == 2
\* number of executeService calls on one ServiceExecutionService
MaxCalls == 2
\* number of validateAndSettlePayment attempts
MaxAttempts == 2
\* number of direct operations on one McpGatewayService
MaxOps == 3
\* largest number of declared, and of provided, parameters
MaxParams == 2
\* number of tool results parsed
MaxParses == 4
\* number of signing calls
MaxSignings == 4
\* longest server list of the runs that vary the items and the payment rows
MaxItemServers == 1

\* default of the maxServers parameter
DefaultMaxServers == 20

----------------------------------------------------------------------------
(* JavaScript values *)

Undefined == [t |-> "undefined"]
Null == [t |-> "null"]
Str(s) == [t |-> "string", s |-> s]
Num(n) == [t |-> "number", n |-> n]
Obj(p) == [t |-> "object", props |-> p]
Arr(e) == [t |-> "array", elems |-> e]

IsString(v) == v.t = "string"
IsArray(v) == v.t = "array"
\* typeof v === 'object' && v !== null (arrays are objects)
IsObjectLike(v) == v.t \in {"object", "array"}
\* 'name' in v, for an object-like v
HasProp(v, name) == v.t = "object" /\ name \in DOMAIN v.props
\* v.name, for a v that is neither null nor undefined
Prop(v, name) == IF HasProp(v, name) THEN v.props[name] ELSE Undefined
\* reading a property of null or undefined throws a TypeError
PropThrows(v) == v.t \in {"undefined", "null"}
\* Boolean(v)
Truthy(v) ==
    CASE v.t = "undefined" -> FALSE
      [] v.t = "null" -> FALSE
      [] v.t = "string" -> v.s # ""
      [] v.t = "number" -> v.n # 0
      [] OTHER -> TRUE
\* a === b: by value for primitives, by reference for objects (two objects
\* that come from two parses are never the same reference)
StrictEq(a, b) == a.t \in {"undefined", "null", "string", "number"} /\ a = b

\* a thrown value: an Error with a message, or a value that is no Error
Err(m) == [isError |-> TRUE, message |-> m]
NonError == [isError |-> FALSE, message |-> "thrown value"]
\* error instanceof Error ? error.message : 'Unknown error'
MessageOf(e) == IF e.isError THEN e.message ELSE "Unknown error"

----------------------------------------------------------------------------
(* The JSON documents remote servers send, and JSON.parse on them *)

ItemSvc1 ==
    Obj([id |-> Str("svc1"), name |-> Str("Service 1"),
         description |-> Str("first service"),
         price |-> Obj([amount |-> Num(1), currency |-> Str("USDC"),
                        paymentMethod |-> Str("USDC_BASE_MAINNET")]),
         params |-> Obj([q |-> Str("query")])])
\* no description, no params, no currency, a tag no payment row carries
ItemSvc2 ==
    Obj([id |-> Str("svc2"), name |-> Str("Service 2"),
         price |-> Obj([amount |-> Num(2),
                        paymentMethod |-> Str("UNKNOWN_TAG")])])
\* a second service of the server, paid on the test network
ItemSvc4 ==
    Obj([id |-> Str("svc4"), name |-> Str("Service 4"),
         description |-> Str("fourth service"),
         price |-> Obj([amount |-> Num(4), currency |-> Str("USDC"),
                        paymentMethod |-> Str("USDC_BASE_SEPOLIA")])])
\* an entry without a price
ItemNoPrice == Obj([id |-> Str("svc3"), name |-> Str("Service 3")])

RowMainnet ==
    Obj([walletAddress |-> Str("0xW1"), paymentMethod |-> Str("USDC_BASE_MAINNET")])
RowMainnetEmptyWallet ==
    Obj([walletAddress |-> Str(""), paymentMethod |-> Str("USDC_BASE_MAINNET")])
RowSepolia ==
    Obj([walletAddress |-> Str("0xW2"), paymentMethod |-> Str("USDC_BASE_SEPOLIA")])

\* JSON.parse(text): [ok |-> TRUE, v |-> the value] or [ok |-> FALSE] (SyntaxError)
JSONParse(text) ==
    CASE text = "{items:[svc1,svc2]}" ->
            [ok |-> TRUE, v |-> Obj([items |-> Arr(<<ItemSvc1, ItemSvc2>>)])]
      [] text = "{items:[svc1,svc4]}" ->
            [ok |-> TRUE, v |-> Obj([items |-> Arr(<<ItemSvc1, ItemSvc4>>)])]
      [] text = "{items:[svc1]}" ->
            [ok |-> TRUE, v |-> Obj([items |-> Arr(<<ItemSvc1>>)])]
      [] text = "{items:[]}" ->
            [ok |-> TRUE, v |-> Obj([items |-> Arr(<<>>)])]
      [] text = "{items:[null]}" ->
            [ok |-> TRUE, v |-> Obj([items |-> Arr(<<Null>>)])]
      [] text = "{items:[noprice]}" ->
            [ok |-> TRUE, v |-> Obj([items |-> Arr(<<ItemNoPrice>>)])]
      [] text = "{items:'none'}" ->
            [ok |-> TRUE, v |-> Obj([items |-> Str("none")])]
      [] text = "[mainnet,sepolia]" ->
            [ok |-> TRUE, v |-> Arr(<<RowMainnet, RowSepolia>>)]
      [] text = "[mainnet-empty-wallet]" ->
            [ok |-> TRUE, v |-> Arr(<<RowMainnetEmptyWallet>>)]
      [] text = "[sepolia]" ->
            [ok |-> TRUE, v |-> Arr(<<RowSepolia>>)]
      [] text = "[{walletAddress:1}]" ->
            [ok |-> TRUE, v |-> Arr(<<Obj([walletAddress |-> Num(1)])>>)]
      [] text = "{toolResult:'Payment failed'}" ->
            [ok |-> TRUE, v |-> Obj([toolResult |-> Str("Payment failed")])]
      [] text = "{toolResult:'done'}" ->
            [ok |-> TRUE, v |-> Obj([toolResult |-> Str("done")])]
      [] text = "{result:'success'}" ->
            [ok |-> TRUE, v |-> Obj([result |-> Str("success")])]
      [] text = "null" -> [ok |-> TRUE, v |-> Null]
      [] text = "42" -> [ok |-> TRUE, v |-> Num(42)]
      [] OTHER -> [ok |-> FALSE, v |-> Undefined]

\* the envelope {content: [{text: <text>}]} a tool result usually arrives in
Envelope(text) == Obj([content |-> Arr(<<Obj([text |-> Str(text)])>>)])
\* {content: []}
EmptyEnvelope == Obj([content |-> Arr(<<>>)])

----------------------------------------------------------------------------
(* ServiceRegistryService: tool-result parsing and shape checks *)

\* the inner text of an envelope, or Null
extractTextFromResult(result) ==
    IF /\ IsObjectLike(result)
       /\ HasProp(result, "content")
       /\ IsArray(Prop(result, "content"))
       /\ Len(Prop(result, "content").elems) > 0
    THEN LET first == Prop(result, "content").elems[1]
         IN IF /\ IsObjectLike(first)
               /\ HasProp(first, "text")
               /\ IsString(Prop(first, "text"))
            THEN Prop(first, "text")
            ELSE Null
    ELSE Null

\* the parsed array or object, Null for anything else
tryParseJson(value) ==
    IF IsString(value)
    THEN LET p == JSONParse(value.s)
         IN IF p.ok /\ IsObjectLike(p.v) THEN p.v ELSE Null
    ELSE Null

Registry_parseToolResult(result) ==
    LET text == extractTextFromResult(result)
        json == tryParseJson(text)
        asJson == tryParseJson(result)
    IN IF Truthy(text) /\ json # Null THEN json
       ELSE IF asJson # Null THEN asJson ELSE result

isPriceListingResponse(value) ==
    /\ IsObjectLike(value)
    /\ IsArray(Prop(value, "items"))

isPaymentMethodsResponseArray(value) ==
    /\ IsArray(value)
    /\ \A k \in 1..Len(value.elems) :
          LET v == value.elems[k]
          IN /\ IsObjectLike(v)
             /\ IsString(Prop(v, "walletAddress"))
             /\ IsString(Prop(v, "paymentMethod"))

----------------------------------------------------------------------------
(* Strings the category filter works on: sequences of characters *)

ToLowerChar(c) ==
    CASE c = "A" -> "a" [] c = "I" -> "i" [] c = "D" -> "d"
      [] c = "P" -> "p" [] c = "F" -> "f"
      [] OTHER -> c
toLowerCase(s) == [k \in 1..Len(s) |-> ToLowerChar(s[k])]
\* s.includes(sub)
includes(s, sub) ==
    \E k \in 0..(Len(s) - Len(sub)) : SubSeq(s, k + 1, k + Len(sub)) = sub
\* s.split(',')[0]
FirstSegment(s) ==
    LET commas == {k \in 1..Len(s) : s[k] = ","}
    IN IF commas = {} THEN s
       ELSE SubSeq(s, 1, (CHOOSE k \in commas : \A j \in commas : k <= j) - 1)
\* s.trim()
trim(s) ==
    LET solid == {k \in 1..Len(s) : s[k] # " "}
    IN IF solid = {} THEN <<>>
       ELSE SubSeq(s, CHOOSE k \in solid : \A j \in solid : k <= j,
                      CHOOSE k \in solid : \A j \in solid : k >= j)

Uncategorized == <<"u", "n", "c", "a", "t", "e", "g", "o", "r", "i", "z", "e", "d">>

extractPrimaryCategory(categories) ==
    IF categories = <<>> THEN Uncategorized
    ELSE IF trim(FirstSegment(categories)) = <<>> THEN Uncategorized
         ELSE trim(FirstSegment(categories))

\* the category argument: undefined, or a string
NoCategory == <<>>
CatAI == <<"A", "I">>
CatLowerAI == <<"a", "i">>

----------------------------------------------------------------------------
(* The marketplace's servers (McpServer records).  A missing categories or *)
(* description field behaves as the empty string everywhere it is read.    *)

ServerAlpha ==
    [id |-> "1", name |-> "alpha", mcpServerUrl |-> "u1", verified |-> TRUE,
     categories |-> <<"A", "I", ",", "D", "a", "t", "a">>,
     description |-> <<"t", "o", "o", "l", "s">>]
ServerBeta ==
    [id |-> "2", name |-> "beta", mcpServerUrl |-> "u2", verified |-> FALSE,
     categories |-> <<"P", "D", "F">>,
     description |-> <<"a", "i", " ", "d", "o", "c", "s">>]
\* shares its URL with alpha
ServerGamma ==
    [id |-> "3", name |-> "gamma", mcpServerUrl |-> "u1", verified |-> FALSE,
     categories |-> <<>>,
     description |-> <<>>]

ServerPool == <<ServerAlpha, ServerBeta, ServerGamma>>
URLs == {"u1", "u2"}

\* the servers of the pool at the indices S, in the pool's order
PoolSubSeq(S) ==
    [i \in 1..Cardinality(S) |->
        ServerPool[CHOOSE k \in S : Cardinality({j \in S : j < k}) = i - 1]]
\* the server lists of the model: up to n servers of the pool
ServerLists(n) ==
    {PoolSubSeq(S) : S \in {T \in SUBSET (1..Len(ServerPool)) : Cardinality(T) <= n}}

----------------------------------------------------------------------------
(* Clients.  A client is named by the task that constructed it. *)

NoClient == [o |-> "none"]
ExploreClient(r, i, transport) == [o |-> "explore", r |-> r, i |-> i, tr |-> transport]
ExecuteClient(c, transport) == [o |-> "execute", r |-> 0, i |-> c, tr |-> transport]
GatewayClient(o, transport) == [o |-> "gateway", r |-> 0, i |-> o, tr |-> transport]

\* what a remote call can do
Returns(v) == [throws |-> FALSE, v |-> v, e |-> Err("")]
Throws(e) == [throws |-> TRUE, v |-> Undefined, e |-> e]
Failures == {Err("remote failure"), NonError}

----------------------------------------------------------------------------
(* ServiceRegistryService.exploreServerServices: the per-item enrichment *)

\* rawService.price.amount throws on an item, or a price, that is null or undefined
normalizeThrows(rawService) ==
    PropThrows(rawService) \/ PropThrows(Prop(rawService, "price"))

EmptyParams == Obj([none |-> Undefined])

normalizeServiceData(rawService) ==
    LET price == Prop(rawService, "price")
    IN [id |-> Prop(rawService, "id"),
        name |-> Prop(rawService, "name"),
        description |->
            IF Truthy(Prop(rawService, "description"))
            THEN Prop(rawService, "description")
            ELSE Str("No description available"),
        price |-> [amount |-> Prop(price, "amount"),
                   currency |-> Prop(price, "currency"),
                   paymentMethod |-> Prop(price, "paymentMethod")],
        params |-> IF Truthy(Prop(rawService, "params"))
                   THEN Prop(rawService, "params")
                   ELSE EmptyParams]

\* the rows whose tag is the payment method, by ===
MatchingRows(paymentMethod, paymentMethods) ==
    {k \in 1..Len(paymentMethods) :
        StrictEq(Prop(paymentMethods[k], "paymentMethod"), paymentMethod)}

\* a faulty variant: without a matching row the first row's wallet is taken
findMatchingPayment_FirstRowFallback(paymentMethod, paymentMethods) ==
    LET rows == MatchingRows(paymentMethod, paymentMethods)
        match == paymentMethods[IF rows = {} THEN 1
                                ELSE CHOOSE k \in rows : \A j \in rows : k <= j]
    IN IF paymentMethods = <<>>
       THEN [walletAddress |-> Str(""), paymentMethod |-> paymentMethod]
       ELSE [walletAddress |-> Prop(match, "walletAddress"),
             paymentMethod |-> Prop(match, "paymentMethod")]

\* findMatchingPayment, with the catch of its caller: the first matching row,
\* or an empty wallet address under the item's own tag
findMatchingPayment(paymentMethod, paymentMethods) ==
    LET rows == MatchingRows(paymentMethod, paymentMethods)
    IN IF rows = {}
       THEN [walletAddress |-> Str(""), paymentMethod |-> paymentMethod]
       ELSE LET match == paymentMethods[CHOOSE k \in rows : \A j \in rows : k <= j]
            IN [walletAddress |-> Prop(match, "walletAddress"),
                paymentMethod |-> Prop(match, "paymentMethod")]

\* a faulty variant: readiness taken from the payment method instead of the wallet address
executionReadyOf_FromPaymentMethod(paymentInfo) == Truthy(paymentInfo.paymentMethod)

\* Boolean(paymentInfo.walletAddress)
executionReadyOf(paymentInfo) == Truthy(paymentInfo.walletAddress)

EnrichService(server, rawService, paymentMethods) ==
    LET normalizedService == normalizeServiceData(rawService)
        paymentInfo ==
            findMatchingPayment(normalizedService.price.paymentMethod, paymentMethods)
    IN [id |-> normalizedService.id,
        name |-> normalizedService.name,
        description |-> normalizedService.description,
        price |-> normalizedService.price,
        params |-> normalizedService.params,
        serverInfo |-> [mcpServerUrl |-> server.mcpServerUrl,
                        serverId |-> server.id,
                        serverName |-> server.name,
                        verified |-> server.verified,
                        categories |-> server.categories],
        paymentInfo |-> paymentInfo,
        executionReady |-> executionReadyOf(paymentInfo),
        category |-> extractPrimaryCategory(server.categories)]

\* a faulty variant: the services that are not ready are left out
EnrichAll_ReadyOnly(server, items, paymentMethods) ==
    LET Ready(svc) == svc.executionReady
    IN IF \E k \in 1..Len(items) : normalizeThrows(items[k])
       THEN [throws |-> TRUE, services |-> <<>>,
             e |-> Err("TypeError: cannot read properties")]
       ELSE [throws |-> FALSE,
             services |->
                 SelectSeq([k \in 1..Len(items) |->
                               EnrichService(server, items[k], paymentMethods)], Ready),
             e |-> Err("")]

\* pricingData.items.map(...): the services, or the TypeError of the first bad item
EnrichAll(server, items, paymentMethods) ==
    IF \E k \in 1..Len(items) : normalizeThrows(items[k])
    THEN [throws |-> TRUE, services |-> <<>>,
          e |-> Err("TypeError: cannot read properties")]
    ELSE [throws |-> FALSE,
          services |->
              [k \in 1..Len(items) |-> EnrichService(server, items[k], paymentMethods)],
          e |-> Err("")]

----------------------------------------------------------------------------
(* ServiceRegistryService.exploreAndEnrichServices *)

Min(a, b) == IF a <= b THEN a ELSE b

\* a faulty variant: nothing is cut off
slice_Everything(array, end) == array

\* array.slice(0, end) for an integer end: a negative end counts from the back
slice(array, end) ==
    SubSeq(array, 1, IF end < 0 THEN IF Len(array) + end > 0 THEN Len(array) + end ELSE 0
                     ELSE Min(end, Len(array)))

\* a faulty variant: the filter reads the categories only
limitedServersOf_CategoriesOnly(servers, category, maxServers, isUnsafeDirectAccess) ==
    LET Matches(server) ==
            includes(toLowerCase(server.categories), toLowerCase(category))
        filtered ==
            IF category # NoCategory /\ ~isUnsafeDirectAccess
            THEN SelectSeq(servers, Matches)
            ELSE servers
    IN IF ~isUnsafeDirectAccess THEN slice(filtered, maxServers) ELSE filtered

\* the servers that pass the category filter and the truncation
limitedServersOf(servers, category, maxServers, isUnsafeDirectAccess) ==
    LET Matches(server) ==
            \/ includes(toLowerCase(server.categories), toLowerCase(category))
            \/ includes(toLowerCase(server.description), toLowerCase(category))
        filtered ==
            IF category # NoCategory /\ ~isUnsafeDirectAccess
            THEN SelectSeq(servers, Matches)
            ELSE servers
    IN IF ~isUnsafeDirectAccess THEN slice(filtered, maxServers) ELSE filtered

NoRun ==
    [phase |-> "idle", servers |-> <<>>, category |-> NoCategory,
     maxServers |-> DefaultMaxServers, isUnsafeDirectAccess |-> FALSE,
     limitedServers |-> <<>>]
NoRegistry == [returned |-> FALSE]

\* the place of a tool response before the tool was called
NotCalled == Throws(Err("not called"))

\* a per-server exploration: pc names the remote operation it awaits
\* listing is what the last price listing call answered
\* paymentMethods are the rows the items were enriched with
NewTask(pc, client) ==
    [pc |-> pc, client |-> client, listing |-> NotCalled,
     items |-> <<>>, paymentMethods |-> Undefined,
     failed |-> FALSE, error |-> Err(""), services |-> <<>>,
     disconnects |-> 0]

\* the call starts every server's exploration: each runs through the cache
\* lookup of getConnection before the first await
exploreAndEnrichServices(servers, category, maxServers, isUnsafeDirectAccess) ==
    /\ run.phase # "exploring"
    /\ LET limitedServers ==
               limitedServersOf(servers, category, maxServers, isUnsafeDirectAccess)
       IN /\ run' = [phase |-> "exploring", servers |-> servers,
                     category |-> category, maxServers |-> maxServers,
                     isUnsafeDirectAccess |-> isUnsafeDirectAccess,
                     limitedServers |-> limitedServers]
          /\ task' = [i \in 1..Len(limitedServers) |->
                        LET existing == connections[limitedServers[i].mcpServerUrl]
                        IN IF existing # NoClient
                           THEN NewTask("pricing-listing", existing)
                           ELSE NewTask("sse", NoClient)]
    /\ runs' = runs + 1
    /\ registry' = NoRegistry
    /\ UNCHANGED <<gatewayVars, calls, payment, ops, signing, validation, parsing, remote>>

Exploring(i) == run.phase = "exploring" /\ i \in DOMAIN task
UrlOf(i) == run.limitedServers[i].mcpServerUrl

\* a faulty variant: a failed try block leaves without the disconnect
EnterFinally_OnlyOnSuccess(t, failed, error, services) ==
    IF failed
    THEN [t EXCEPT !.pc = "settled", !.failed = TRUE, !.error = error,
                   !.services = services]
    ELSE [t EXCEPT !.pc = "disconnect", !.failed = FALSE, !.error = error,
                   !.services = services, !.disconnects = @ + 1]

\* the try block of exploreServerServices ended (with services or an error):
\* the finally block calls client.disconnect()
EnterFinally(t, failed, error, services) ==
    [t EXCEPT !.pc = "disconnect", !.failed = failed, !.error = error,
              !.services = services, !.disconnects = @ + 1]

\* getConnection: the SSE connect settles
ExploreConnectSSE(i, ok) ==
    /\ Exploring(i)
    /\ task[i].pc = "sse"
    /\ IF ok
       THEN /\ connections' =
                  [connections EXCEPT ![UrlOf(i)] = ExploreClient(runs, i, "sse")]
            /\ task' = [task EXCEPT ![i].pc = "pricing-listing",
                                    ![i].client = ExploreClient(runs, i, "sse")]
       ELSE /\ task' = [task EXCEPT ![i].pc = "streamable"]
            /\ UNCHANGED connections
    /\ UNCHANGED <<disconnected, runs, run, registry, calls, payment, ops, signing, validation, parsing, remote>>

\* getConnection: the Streamable connect settles; its failure is the task's
ExploreConnectStreamable(i, outcome) ==
    /\ Exploring(i)
    /\ task[i].pc = "streamable"
    /\ IF ~outcome.throws
       THEN /\ connections' =
                  [connections EXCEPT ![UrlOf(i)] = ExploreClient(runs, i, "streamable")]
            /\ task' = [task EXCEPT ![i].pc = "pricing-listing",
                                    ![i].client = ExploreClient(runs, i, "streamable")]
       ELSE /\ task' = [task EXCEPT ![i].pc = "settled", ![i].failed = TRUE,
                                    ![i].error = outcome.e]
            /\ UNCHANGED connections
    /\ UNCHANGED <<disconnected, runs, run, registry, calls, payment, ops, signing, validation, parsing, remote>>

\* a faulty variant: the second tool name is never tried
ExplorePricing_NoFallback(i, toolName, outcome) ==
    /\ Exploring(i)
    /\ task[i].pc = toolName
    /\ LET parsed == Registry_parseToolResult(outcome.v)
       IN IF ~outcome.throws /\ isPriceListingResponse(parsed)
          THEN /\ task' = [task EXCEPT ![i].pc = "payment-methods",
                                       ![i].listing = outcome,
                                       ![i].items = Prop(parsed, "items").elems]
               /\ UNCHANGED disconnected
          ELSE /\ task' = [task EXCEPT ![i] =
                    EnterFinally([@ EXCEPT !.listing = outcome], TRUE,
                        Err("No compatible pricing tool found on server"), <<>>)]
               /\ disconnected' = disconnected \cup {task[i].client}
    /\ UNCHANGED <<connections, runs, run, registry, calls, payment, ops, signing, validation, parsing, remote>>

\* getPricingData: callTool(toolName) settles; a result that parses to a price
\* listing is taken, anything else moves on to the next tool name
ExplorePricing(i, toolName, outcome) ==
    /\ Exploring(i)
    /\ task[i].pc = toolName
    /\ LET parsed == Registry_parseToolResult(outcome.v)
       IN IF ~outcome.throws /\ isPriceListingResponse(parsed)
          THEN /\ task' = [task EXCEPT ![i].pc = "payment-methods",
                                       ![i].listing = outcome,
                                       ![i].items = Prop(parsed, "items").elems]
               /\ UNCHANGED disconnected
          ELSE IF toolName = "pricing-listing"
          THEN /\ task' = [task EXCEPT ![i].pc = "price-listing",
                                       ![i].listing = outcome]
               /\ UNCHANGED disconnected
          ELSE /\ task' = [task EXCEPT ![i] =
                    EnterFinally([@ EXCEPT !.listing = outcome], TRUE,
                        Err("No compatible pricing tool found on server"), <<>>)]
               /\ disconnected' = disconnected \cup {task[i].client}
    /\ UNCHANGED <<connections, runs, run, registry, calls, payment, ops, signing, validation, parsing, remote>>

\* getPaymentMethods settles, then the items are enriched; the finally block
\* calls disconnect
ExplorePaymentMethods(i, outcome) ==
    /\ Exploring(i)
    /\ task[i].pc = "payment-methods"
    /\ LET parsed == Registry_parseToolResult(outcome.v)
           enriched == EnrichAll(run.limitedServers[i], task[i].items, parsed.elems)
           fetched == [task[i] EXCEPT !.paymentMethods = parsed]
       IN task' = [task EXCEPT ![i] =
             IF outcome.throws
             THEN EnterFinally(@, TRUE, outcome.e, <<>>)
             ELSE IF ~isPaymentMethodsResponseArray(parsed)
             THEN EnterFinally(@, TRUE,
                      Err("Invalid payment methods response format"), <<>>)
             ELSE IF enriched.throws
             THEN EnterFinally(@, TRUE, enriched.e, <<>>)
             ELSE EnterFinally(fetched, FALSE, Err(""), enriched.services)]
    /\ disconnected' = disconnected \cup {task[i].client}
    /\ UNCHANGED <<connections, runs, run, registry, calls, payment, ops, signing, validation, parsing, remote>>

\* client.disconnect() settles: its rejection replaces the outcome of the try block
ExploreDisconnect(i, outcome) ==
    /\ Exploring(i)
    /\ task[i].pc = "disconnect"
    /\ task' = [task EXCEPT ![i] =
          IF outcome.throws
          THEN [@ EXCEPT !.pc = "settled", !.failed = TRUE, !.error = outcome.e,
                         !.services = <<>>]
          ELSE [@ EXCEPT !.pc = "settled"]]
    /\ UNCHANGED <<gatewayVars, runs, run, registry, calls, payment, ops, signing, validation, parsing, remote>>

\* what the wrapper around exploreServerServices resolves to
ServerResult(i) ==
    IF task[i].failed
    THEN [status |-> "fulfilled", success |-> FALSE,
          serverName |-> run.limitedServers[i].name,
          services |-> <<>>, error |-> MessageOf(task[i].error)]
    ELSE [status |-> "fulfilled", success |-> TRUE,
          serverName |-> run.limitedServers[i].name,
          services |-> task[i].services, error |-> ""]

RECURSIVE CollectServices(_)
CollectServices(results) ==
    IF results = <<>> THEN <<>>
    ELSE LET r == Head(results)
         IN (IF r.status = "fulfilled" /\ r.success THEN r.services ELSE <<>>)
            \o CollectServices(Tail(results))

\* totalServicesFound += serverResult.services.length
RECURSIVE CountServices(_)
CountServices(results) ==
    IF results = <<>> THEN 0
    ELSE LET r == Head(results)
         IN (IF r.status = "fulfilled" /\ r.success THEN Len(r.services) ELSE 0)
            + CountServices(Tail(results))

RECURSIVE CollectErrors(_)
CollectErrors(results) ==
    IF results = <<>> THEN <<>>
    ELSE LET r == Head(results)
         IN (IF r.status # "fulfilled"
             THEN <<[serverName |-> "Unknown server", error |-> r.error]>>
             ELSE IF r.success THEN <<>>
             ELSE <<[serverName |-> r.serverName, error |-> r.error]>>)
            \o CollectErrors(Tail(results))

\* a faulty variant: the first exploration to settle ends the wait
AllSettled_FirstSettled ==
    DOMAIN task = {} \/ \E i \in DOMAIN task : task[i].pc = "settled"

\* await Promise.allSettled(serverPromises): every exploration has settled
AllSettled == \A i \in DOMAIN task : task[i].pc = "settled"

\* a faulty variant: the services are counted after the category filter
BuildRegistry_CountAfterFilter(results) ==
    LET enrichedServices == CollectServices(results)
        HasCategory(s) == s.category = run.category
        kept == IF run.category # NoCategory
                THEN SelectSeq(enrichedServices, HasCategory)
                ELSE enrichedServices
    IN [returned |-> TRUE,
        totalServersExplored |-> Len(run.limitedServers),
        totalServicesFound |-> Len(kept),
        category |-> run.category,
        services |-> kept,
        errors |-> CollectErrors(results)]

\* a faulty variant: the services are compared with the category in lower case
BuildRegistry_AnyCase(results) ==
    LET enrichedServices == CollectServices(results)
        HasCategory(s) == toLowerCase(s.category) = toLowerCase(run.category)
    IN [returned |-> TRUE,
        totalServersExplored |-> Len(run.limitedServers),
        totalServicesFound |-> CountServices(results),
        category |-> run.category,
        services |-> IF run.category # NoCategory
                     THEN SelectSeq(enrichedServices, HasCategory)
                     ELSE enrichedServices,
        errors |-> CollectErrors(results)]

\* a faulty variant: the results are walked from the last server to the first
BuildRegistry_ReverseOrder(results) ==
    LET reversed == [k \in 1..Len(results) |-> results[Len(results) + 1 - k]]
        enrichedServices == CollectServices(reversed)
        HasCategory(s) == s.category = run.category
    IN [returned |-> TRUE,
        totalServersExplored |-> Len(run.limitedServers),
        totalServicesFound |-> CountServices(results),
        category |-> run.category,
        services |-> IF run.category # NoCategory
                     THEN SelectSeq(enrichedServices, HasCategory)
                     ELSE enrichedServices,
        errors |-> CollectErrors(reversed)]

BuildRegistry(results) ==
    LET enrichedServices == CollectServices(results)
        HasCategory(s) == s.category = run.category
    IN [returned |-> TRUE,
        totalServersExplored |-> Len(run.limitedServers),
        totalServicesFound |-> CountServices(results),
        category |-> run.category,
        services |-> IF run.category # NoCategory
                     THEN SelectSeq(enrichedServices, HasCategory)
                     ELSE enrichedServices,
        errors |-> CollectErrors(results)]

\* the loop over the settled results and the return
Aggregate ==
    /\ run.phase = "exploring"
    /\ AllSettled
    /\ registry' = BuildRegistry([i \in DOMAIN task |-> ServerResult(i)])
    /\ run' = [run EXCEPT !.phase = "returned"]
    /\ UNCHANGED <<gatewayVars, runs, task, calls, payment, ops, signing, validation, parsing, remote>>

----------------------------------------------------------------------------
(* McpGatewayService called directly: getConnection, closeConnection,      *)
(* closeAllConnections.  Calls may overlap: each await is a step.          *)

\* an operation on the gateway: pc names what it awaits; attempts are the
\* transports constructed and connected, in order; snapshot and pending are
\* the clients closeAllConnections called disconnect on and still waits for
NoOp ==
    [kind |-> "none", pc |-> "idle", url |-> "", outcome |-> "none",
     client |-> NoClient, existing |-> NoClient, attempts |-> <<>>,
     sseError |-> Err(""), error |-> Err(""), snapshot |-> {}, pending |-> {}]
NoOps == [o \in 1..MaxOps |-> NoOp]

\* the clients in the cache
Cached == {connections[u] : u \in URLs} \ {NoClient}

\* a faulty variant: the cache is not consulted
getConnection_AlwaysConnect(o, mcpServerUrl) ==
    /\ ops[o].pc = "idle"
    /\ ops' = [ops EXCEPT ![o] =
          [NoOp EXCEPT !.kind = "getConnection", !.url = mcpServerUrl,
                       !.existing = connections[mcpServerUrl], !.pc = "sse",
                       !.attempts = <<[tr |-> "sse", url |-> mcpServerUrl]>>]]
    /\ UNCHANGED <<gatewayVars, enrichVars, calls, payment, signing, validation, parsing, remote>>

\* getConnection is called: the cached client is returned, or an SSE client
\* is constructed and its connect awaited
getConnection(o, mcpServerUrl) ==
    /\ ops[o].pc = "idle"
    /\ LET existing == connections[mcpServerUrl]
           op == [NoOp EXCEPT !.kind = "getConnection", !.url = mcpServerUrl,
                              !.existing = existing]
       IN ops' = [ops EXCEPT ![o] =
             IF existing # NoClient
             THEN [op EXCEPT !.pc = "done", !.outcome = "returned", !.client = existing]
             ELSE [op EXCEPT !.pc = "sse",
                             !.attempts = <<[tr |-> "sse", url |-> mcpServerUrl]>>]]
    /\ UNCHANGED <<gatewayVars, enrichVars, calls, payment, signing, validation, parsing, remote>>

\* a faulty variant: the client is returned without being stored
GetConnectionStore_ReturnOnly(o, client) ==
    /\ UNCHANGED connections
    /\ ops' = [ops EXCEPT ![o] =
          [@ EXCEPT !.pc = "done", !.outcome = "returned", !.client = client]]

\* this.connections.set(mcpServerUrl, client); return client
GetConnectionStore(o, client) ==
    /\ connections' = [connections EXCEPT ![ops[o].url] = client]
    /\ ops' = [ops EXCEPT ![o] =
          [@ EXCEPT !.pc = "done", !.outcome = "returned", !.client = client]]

\* the SSE connect settles: the client is stored and returned, or a
\* Streamable client is constructed and its connect awaited
GetConnectionSSE(o, outcome) ==
    /\ ops[o].kind = "getConnection"
    /\ ops[o].pc = "sse"
    /\ IF ~outcome.throws
       THEN GetConnectionStore(o, GatewayClient(o, "sse"))
       ELSE /\ ops' = [ops EXCEPT ![o] =
                  [@ EXCEPT !.pc = "streamable", !.sseError = outcome.e,
                            !.attempts = Append(@, [tr |-> "streamable",
                                                     url |-> ops[o].url])]]
            /\ UNCHANGED connections
    /\ UNCHANGED <<disconnected, enrichVars, calls, payment, signing, validation, parsing, remote>>

\* a faulty variant: a failed fallback rejects with the SSE attempt's error
GetConnectionStreamable_RejectsWithFirstError(o, outcome) ==
    /\ ops[o].kind = "getConnection"
    /\ ops[o].pc = "streamable"
    /\ IF ~outcome.throws
       THEN GetConnectionStore(o, GatewayClient(o, "streamable"))
       ELSE /\ ops' = [ops EXCEPT ![o] =
                  [@ EXCEPT !.pc = "done", !.outcome = "rejected", !.error = ops[o].sseError]]
            /\ UNCHANGED connections
    /\ UNCHANGED <<disconnected, enrichVars, calls, payment, signing, validation, parsing, remote>>

\* the Streamable connect settles: the client is stored and returned, or
\* getConnection rejects with this error
GetConnectionStreamable(o, outcome) ==
    /\ ops[o].kind = "getConnection"
    /\ ops[o].pc = "streamable"
    /\ IF ~outcome.throws
       THEN GetConnectionStore(o, GatewayClient(o, "streamable"))
       ELSE /\ ops' = [ops EXCEPT ![o] =
                  [@ EXCEPT !.pc = "done", !.outcome = "rejected", !.error = outcome.e]]
            /\ UNCHANGED connections
    /\ UNCHANGED <<disconnected, enrichVars, calls, payment, signing, validation, parsing, remote>>

\* closeConnection is called: nothing to do for a URL that is not cached,
\* else disconnect is called on the cached client and awaited
closeConnection(o, mcpServerUrl) ==
    /\ ops[o].pc = "idle"
    /\ LET client == connections[mcpServerUrl]
           op == [NoOp EXCEPT !.kind = "closeConnection", !.url = mcpServerUrl,
                              !.existing = client, !.client = client]
       IN IF client = NoClient
          THEN /\ ops' = [ops EXCEPT ![o] =
                     [op EXCEPT !.pc = "done", !.outcome = "returned"]]
               /\ UNCHANGED disconnected
          ELSE /\ ops' = [ops EXCEPT ![o] = [op EXCEPT !.pc = "disconnect"]]
               /\ disconnected' = disconnected \cup {client}
    /\ UNCHANGED <<connections, enrichVars, calls, payment, signing, validation, parsing, remote>>

\* the disconnect of closeConnection settles: the entry is deleted, or
\* closeConnection rejects
CloseConnectionDisconnect(o, outcome) ==
    /\ ops[o].kind = "closeConnection"
    /\ ops[o].pc = "disconnect"
    /\ IF ~outcome.throws
       THEN /\ connections' = [connections EXCEPT ![ops[o].url] = NoClient]
            /\ ops' = [ops EXCEPT ![o] = [@ EXCEPT !.pc = "done", !.outcome = "returned"]]
       ELSE /\ ops' = [ops EXCEPT ![o] =
                  [@ EXCEPT !.pc = "done", !.outcome = "rejected", !.error = outcome.e]]
            /\ UNCHANGED connections
    /\ UNCHANGED <<disconnected, enrichVars, calls, payment, signing, validation, parsing, remote>>

\* a faulty variant: disconnect is called on one cached client at a time
closeAllConnections_OneAtATime(o) ==
    /\ ops[o].pc = "idle"
    /\ ops' = [ops EXCEPT ![o] =
          [NoOp EXCEPT !.kind = "closeAllConnections", !.pc = "closing",
                       !.snapshot = Cached, !.pending = Cached]]
    /\ disconnected' =
          IF Cached = {} THEN disconnected
          ELSE disconnected \cup {CHOOSE client \in Cached : TRUE}
    /\ UNCHANGED <<connections, enrichVars, calls, payment, signing, validation, parsing, remote>>

\* closeAllConnections is called: disconnect is called on every cached
\* client, and Promise.all of the disconnects is awaited
closeAllConnections(o) ==
    /\ ops[o].pc = "idle"
    /\ ops' = [ops EXCEPT ![o] =
          [NoOp EXCEPT !.kind = "closeAllConnections", !.pc = "closing",
                       !.snapshot = Cached, !.pending = Cached]]
    /\ disconnected' = disconnected \cup Cached
    /\ UNCHANGED <<connections, enrichVars, calls, payment, signing, validation, parsing, remote>>

\* one disconnect of closeAllConnections settles; the first rejection
\* rejects Promise.all and closeAllConnections with it
CloseAllDisconnect(o, client, outcome) ==
    /\ ops[o].kind = "closeAllConnections"
    /\ ops[o].pc = "closing"
    /\ client \in ops[o].pending
    /\ ops' = [ops EXCEPT ![o] =
          IF outcome.throws
          THEN [@ EXCEPT !.pc = "done", !.outcome = "rejected", !.error = outcome.e,
                         !.pending = @ \ {client}]
          ELSE [@ EXCEPT !.pending = @ \ {client}]]
    /\ UNCHANGED <<gatewayVars, enrichVars, calls, payment, signing, validation, parsing, remote>>

\* every disconnect fulfilled: this.connections.clear()
CloseAllClear(o) ==
    /\ ops[o].kind = "closeAllConnections"
    /\ ops[o].pc = "closing"
    /\ ops[o].pending = {}
    /\ connections' = [u \in URLs |-> NoClient]
    /\ ops' = [ops EXCEPT ![o] = [@ EXCEPT !.pc = "done", !.outcome = "returned"]]
    /\ UNCHANGED <<disconnected, enrichVars, calls, payment, signing, validation, parsing, remote>>

----------------------------------------------------------------------------
(* ServiceExecutionService: validation, parsing, the protocol steps *)

NotReadyForExecution == "Service is not ready for execution. Missing payment information."
MissingWalletAddress == "Service is missing wallet address for payment method"
MissingServerUrl == "Service is missing server URL"
InvalidPrice == "Service has invalid price"
NoLongerAvailable == "Service is no longer available on the server"
PaymentVerificationFailed == "Payment verification failed on server"
UnsupportedPaymentMethod == "Unsupported payment method"
TypeErrorMessage == "Cannot read properties of null (reading 'id')"
NoError == ""

\* service.price.amount < 0
NegativeAmount(amount) == amount.t = "number" /\ amount.n < 0

\* a faulty variant: validation without the price check
validateServiceExecution_NoPriceCheck(service) ==
    IF ~service.executionReady THEN NotReadyForExecution
    ELSE IF ~Truthy(service.paymentInfo.walletAddress) THEN MissingWalletAddress
    ELSE IF service.serverInfo.mcpServerUrl = "" THEN MissingServerUrl
    ELSE NoError

\* a faulty variant: the server URL is checked before the wallet address
validateServiceExecution_UrlFirst(service) ==
    IF ~service.executionReady THEN NotReadyForExecution
    ELSE IF service.serverInfo.mcpServerUrl = "" THEN MissingServerUrl
    ELSE IF ~Truthy(service.paymentInfo.walletAddress) THEN MissingWalletAddress
    ELSE IF NegativeAmount(service.price.amount) THEN InvalidPrice
    ELSE NoError

\* validateServiceExecution: the message of the first check that fails, or NoError
validateServiceExecution(service) ==
    IF ~service.executionReady THEN NotReadyForExecution
    ELSE IF ~Truthy(service.paymentInfo.walletAddress) THEN MissingWalletAddress
    ELSE IF service.serverInfo.mcpServerUrl = "" THEN MissingServerUrl
    ELSE IF NegativeAmount(service.price.amount) THEN InvalidPrice
    ELSE NoError

Execution_parseToolResult(result) ==
    LET content == Prop(result, "content")
        text == IF IsArray(content) /\ Len(content.elems) > 0
                THEN Prop(content.elems[1], "text")
                ELSE Undefined
    IN IF IsObjectLike(result) /\ HasProp(result, "content") /\ IsString(text)
       THEN IF JSONParse(text.s).ok THEN JSONParse(text.s).v ELSE text
       ELSE IF IsString(result)
       THEN IF JSONParse(result.s).ok THEN JSONParse(result.s).v ELSE result
       ELSE result

\* verifyServiceAvailability on the parsed price listing: NoError when an item
\* with the id is found, else the message of the error thrown.  items.some stops
\* at the first match; reading the id of a null entry met before it throws.
verifyServiceAvailability(parsed, serviceId) ==
    LET items == IF Truthy(parsed) /\ IsObjectLike(parsed) /\ HasProp(parsed, "items")
                 THEN Prop(parsed, "items")
                 ELSE Undefined
        elems == IF IsArray(items) THEN items.elems ELSE <<>>
        matches == {k \in 1..Len(elems) :
                       /\ ~PropThrows(elems[k])
                       /\ StrictEq(Prop(elems[k], "id"), Str(serviceId))}
        broken == {k \in 1..Len(elems) : PropThrows(elems[k])}
    IN IF \E k \in matches : \A j \in broken : k < j THEN NoError
       ELSE IF broken # {} THEN TypeErrorMessage
       ELSE NoLongerAvailable

\* toPaymentMethodEnum throws for a value that is no member of PaymentMethods
toPaymentMethodEnumThrows(value) ==
    value \notin {Str("USDC_BASE_SEPOLIA"), Str("USDC_BASE_MAINNET")}

\* executePurchase on the parsed make-purchase response: the sentinel check
isPaymentFailed(parsed) ==
    /\ IsObjectLike(parsed)
    /\ HasProp(parsed, "toolResult")
    /\ StrictEq(Prop(parsed, "toolResult"), Str("Payment failed"))

NoRequest == [serviceId |-> "", serverUrl |-> "", pkpPrivateKey |-> "", params |-> Undefined]
NoService ==
    [id |-> Undefined, executionReady |-> FALSE,
     price |-> [amount |-> Undefined, currency |-> Undefined, paymentMethod |-> Undefined],
     serverInfo |-> [mcpServerUrl |-> ""],
     paymentInfo |-> [walletAddress |-> Undefined, paymentMethod |-> Undefined]]
NoResult ==
    [success |-> FALSE, result |-> Undefined, error |-> NoError,
     transactionCost |-> <<Undefined, Undefined>>]
FailureResult(message) == [NoResult EXCEPT !.error = message]
\* transactionCost: `${service.price.amount} ${service.price.currency || 'USDC'}`
SuccessResult(purchaseResult, service) ==
    [success |-> TRUE, result |-> purchaseResult, error |-> NoError,
     transactionCost |->
        <<service.price.amount,
          IF Truthy(service.price.currency) THEN service.price.currency ELSE Str("USDC")>>]

\* an executeService invocation: pc names the remote operation it awaits;
\* the counters and the recorded responses are the calls it made and what
\* came back; connectionUrl, signArgs and purchaseArgs are the arguments it
\* handed to getConnection, signPaymentTransaction and make-purchase
IdleCall ==
    [pc |-> "idle", request |-> NoRequest, service |-> NoService,
     client |-> NoClient, outcome |-> "none", result |-> NoResult,
     rejection |-> Err(""), signedTransaction |-> Undefined,
     connectionUrl |-> "", signArgs |-> Undefined, purchaseArgs |-> Undefined,
     getConnectionCalls |-> 0, toolCalls |-> <<>>, signCalls |-> 0,
     disconnectCalls |-> 0, listing |-> NotCalled, purchase |-> NotCalled]
RetiredCall == [IdleCall EXCEPT !.pc = "retired"]

\* a faulty variant: cleanup that releases the connection only after a success
ExecuteFinally_OnlyOnSuccess(call, result) ==
    IF call.client # NoClient /\ result.success
    THEN [call EXCEPT !.pc = "disconnect", !.result = result,
                      !.disconnectCalls = @ + 1]
    ELSE [call EXCEPT !.pc = "done", !.result = result, !.outcome = "returned"]

\* the catch block built the failure result (or the try block the success
\* result); the finally block calls disconnect when a client was obtained
ExecuteFinally(call, result) ==
    IF call.client # NoClient
    THEN [call EXCEPT !.pc = "disconnect", !.result = result,
                      !.disconnectCalls = @ + 1]
    ELSE [call EXCEPT !.pc = "done", !.result = result, !.outcome = "returned"]

\* the arguments of signPaymentTransaction
SignArgs(call) ==
    [amount |-> call.service.price.amount,
     recipientAddress |-> call.service.paymentInfo.walletAddress,
     paymentMethod |-> call.service.price.paymentMethod,
     pkpPrivateKey |-> call.request.pkpPrivateKey]

\* a faulty variant: the purchase is sent without the request's params
PurchaseArgs_WithoutParams(call, signedPayment) ==
    [itemId |-> call.request.serviceId,
     params |-> Undefined,
     paymentMethod |-> call.service.price.paymentMethod,
     signedTransaction |-> signedPayment.signedTransaction]

\* the args of make-purchase: {itemId, params, paymentMethod, signedTransaction}
PurchaseArgs(call, signedPayment) ==
    [itemId |-> call.request.serviceId,
     params |-> call.request.params,
     paymentMethod |-> call.service.price.paymentMethod,
     signedTransaction |-> signedPayment.signedTransaction]

\* the connection was obtained: verifyServiceAvailability calls price-listing
ExecuteConnected(call, client) ==
    [call EXCEPT !.pc = "verify", !.client = client,
                 !.toolCalls = Append(@, "price-listing")]

\* executeService is called: validation, then getConnection up to its first await
executeService(c, request, service) ==
    /\ calls[c].pc = "idle"
    /\ LET call == [calls[c] EXCEPT !.request = request, !.service = service]
           invalid == validateServiceExecution(service)
           existing == connections[request.serverUrl]
           connecting == [call EXCEPT !.getConnectionCalls = 1,
                                      !.connectionUrl = request.serverUrl]
       IN calls' = [calls EXCEPT ![c] =
             IF invalid # NoError
             THEN ExecuteFinally(call, FailureResult(invalid))
             ELSE IF existing # NoClient
             THEN ExecuteConnected(connecting, existing)
             ELSE [connecting EXCEPT !.pc = "sse"]]
    /\ UNCHANGED <<gatewayVars, enrichVars, payment, ops, signing, validation, parsing, remote>>

\* getConnection: the SSE connect settles
ExecuteConnectSSE(c, ok) ==
    /\ calls[c].pc = "sse"
    /\ IF ok
       THEN /\ connections' = [connections EXCEPT
                  ![calls[c].request.serverUrl] = ExecuteClient(c, "sse")]
            /\ calls' = [calls EXCEPT ![c] = ExecuteConnected(@, ExecuteClient(c, "sse"))]
       ELSE /\ calls' = [calls EXCEPT ![c].pc = "streamable"]
            /\ UNCHANGED connections
    /\ UNCHANGED <<disconnected, enrichVars, payment, ops, signing, validation, parsing, remote>>

\* getConnection: the Streamable connect settles; its failure is caught
ExecuteConnectStreamable(c, outcome) ==
    /\ calls[c].pc = "streamable"
    /\ IF ~outcome.throws
       THEN /\ connections' = [connections EXCEPT
                  ![calls[c].request.serverUrl] = ExecuteClient(c, "streamable")]
            /\ calls' = [calls EXCEPT ![c] =
                  ExecuteConnected(@, ExecuteClient(c, "streamable"))]
       ELSE /\ calls' = [calls EXCEPT ![c] =
                  ExecuteFinally(@, FailureResult(MessageOf(outcome.e)))]
            /\ UNCHANGED connections
    /\ UNCHANGED <<disconnected, enrichVars, payment, ops, signing, validation, parsing, remote>>

\* the price-listing call of verifyServiceAvailability settles; when the
\* service is found, signPaymentTransaction is called
ExecuteVerify(c, outcome) ==
    /\ calls[c].pc = "verify"
    /\ LET call == [calls[c] EXCEPT !.listing = outcome]
           unavailable ==
               verifyServiceAvailability(Execution_parseToolResult(outcome.v),
                                         call.request.serviceId)
           failure ==
               IF outcome.throws THEN MessageOf(outcome.e)
               ELSE IF unavailable # NoError THEN unavailable
               ELSE IF toPaymentMethodEnumThrows(call.service.price.paymentMethod)
               THEN UnsupportedPaymentMethod
               ELSE NoError
       IN IF failure # NoError
          THEN /\ calls' = [calls EXCEPT ![c] = ExecuteFinally(call, FailureResult(failure))]
               /\ disconnected' = disconnected \cup {call.client}
          ELSE /\ calls' = [calls EXCEPT ![c] =
                     [call EXCEPT !.pc = "sign", !.signCalls = @ + 1,
                                  !.signArgs = SignArgs(call)]]
               /\ UNCHANGED disconnected
    /\ UNCHANGED <<connections, enrichVars, payment, ops, signing, validation, parsing, remote>>

\* signPaymentTransaction settles; executePurchase calls make-purchase
ExecuteSign(c, outcome) ==
    /\ calls[c].pc = "sign"
    /\ IF outcome.throws
       THEN /\ calls' = [calls EXCEPT ![c] =
                  ExecuteFinally(@, FailureResult(MessageOf(outcome.e)))]
            /\ disconnected' = disconnected \cup {calls[c].client}
       ELSE /\ calls' = [calls EXCEPT ![c] =
                  [@ EXCEPT !.pc = "purchase", !.signedTransaction = outcome.v,
                            !.purchaseArgs = PurchaseArgs(calls[c], outcome.v),
                            !.toolCalls = Append(@, "make-purchase")]]
            /\ UNCHANGED disconnected
    /\ UNCHANGED <<connections, enrichVars, payment, ops, signing, validation, parsing, remote>>

\* the make-purchase call settles: the result is built and the finally block runs
ExecutePurchase(c, outcome) ==
    /\ calls[c].pc = "purchase"
    /\ LET call == [calls[c] EXCEPT !.purchase = outcome]
           parsed == Execution_parseToolResult(outcome.v)
       IN calls' = [calls EXCEPT ![c] =
             IF outcome.throws
             THEN ExecuteFinally(call, FailureResult(MessageOf(outcome.e)))
             ELSE IF isPaymentFailed(parsed)
             THEN ExecuteFinally(call, FailureResult(PaymentVerificationFailed))
             ELSE ExecuteFinally(call, SuccessResult(parsed, call.service))]
    /\ disconnected' = disconnected \cup {calls[c].client}
    /\ UNCHANGED <<connections, enrichVars, payment, ops, signing, validation, parsing, remote>>

\* client.disconnect() in the finally block settles: the result is returned,
\* or the rejection of disconnect leaves executeService
ExecuteDisconnect(c, outcome) ==
    /\ calls[c].pc = "disconnect"
    /\ calls' = [calls EXCEPT ![c] =
          IF outcome.throws
          THEN [@ EXCEPT !.pc = "done", !.outcome = "rejected", !.rejection = outcome.e]
          ELSE [@ EXCEPT !.pc = "done", !.outcome = "returned"]]
    /\ UNCHANGED <<gatewayVars, enrichVars, payment, ops, signing, validation, parsing, remote>>

\* the caller has taken the outcome of a finished call
Retire(c) ==
    /\ calls[c].pc = "done"
    /\ calls' = [calls EXCEPT ![c] = RetiredCall]
    /\ UNCHANGED <<gatewayVars, enrichVars, payment, ops, signing, validation, parsing, remote>>

----------------------------------------------------------------------------
(* A remote server whose responses do not change, and the hand-over of a   *)
(* registry's services from discovery to execution                         *)

NoRemote == [deployed |-> FALSE, tools |-> {}, listing |-> ""]

\* what the server answers to callTool(toolName, ...) for a listing tool: its
\* price listing under the names it implements, an error under any other
RemoteListing(toolName) ==
    IF toolName \in remote.tools
    THEN Returns(Envelope(remote.listing))
    ELSE Throws(Err("Unknown tool"))

\* the server is set up with the listing tool names it implements
Deploy(tools, listing) ==
    /\ ~remote.deployed
    /\ remote' = [deployed |-> TRUE, tools |-> tools, listing |-> listing]
    /\ UNCHANGED <<gatewayVars, enrichVars, calls, payment, ops, signing, validation, parsing>>

\* the request a caller builds for a service of the registry
RequestFor(service) ==
    [serviceId |-> service.id.s, serverUrl |-> service.serverInfo.mcpServerUrl,
     pkpPrivateKey |-> "0xkey", params |-> Obj([q |-> Str("query")])]

\* new ServiceExecutionService(): the execution service constructs a gateway
\* of its own, whose map of connections is empty
NewExecutionService ==
    /\ registry.returned
    /\ \E u \in URLs : connections[u] # NoClient
    /\ \A c \in 1..MaxCalls : calls[c].pc = "idle"
    /\ connections' = [u \in URLs |-> NoClient]
    /\ UNCHANGED <<disconnected, enrichVars, calls, payment, ops, signing, validation, parsing, remote>>

----------------------------------------------------------------------------
(* The two parseToolResult side by side: the registry's and the execution  *)
(* service's, applied to the same tool result                              *)

NoParsing ==
    [count |-> 0, result |-> Undefined, registry |-> Undefined, execution |-> Undefined]

\* a tool result arrives and each component parses it with its own function
parseToolResult(result) ==
    /\ parsing' = [count |-> parsing.count + 1, result |-> result,
                   registry |-> Registry_parseToolResult(result),
                   execution |-> Execution_parseToolResult(result)]
    /\ UNCHANGED <<gatewayVars, enrichVars, calls, payment, ops, signing, validation, remote>>

----------------------------------------------------------------------------
(* BlockchainPaymentService: validating and settling a received payment *)

ZeroAddress == "0x0000000000000000000000000000000000000000"

\* getNetworkFromPaymentMethod: the network, or its throwing for any other tag
getNetworkFromPaymentMethod(paymentMethod) ==
    CASE paymentMethod = "USDC_BASE_MAINNET" -> Returns("base")
      [] paymentMethod = "USDC_BASE_SEPOLIA" -> Returns("base-sepolia")
      [] OTHER -> Throws(Err(UnsupportedPaymentMethod))

\* paymentMethod.split('_')[0]
getCurrencyFromPaymentMethod(paymentMethod) ==
    CASE paymentMethod = "USDC_BASE_MAINNET" -> "USDC"
      [] paymentMethod = "USDC_BASE_SEPOLIA" -> "USDC"
      [] paymentMethod = "UNKNOWN_TAG" -> "UNKNOWN"
      [] OTHER -> paymentMethod

\* amount.toString() on the amounts in play
toString(amount) ==
    CASE amount = 0 -> "0"
      [] amount = 1 -> "1"
      [] amount = 5 -> "5"
      [] OTHER -> "NaN"

\* a decoded payment authorization signed by the address
PaymentPayload(from) ==
    Obj([payload |-> Obj([authorization |-> Obj([from |-> Str(from)])])])

\* (error as Error).message of a caught value: a thrown value that is no Error
\* has no message
CaughtMessage(e) == IF e.isError THEN Str(e.message) ELSE Undefined

\* a faulty variant: the decoded payload is handed back whatever verify said
verifyPayment_PayloadAlways(decodedTransaction, outcome) ==
    IF outcome.throws
    THEN [success |-> FALSE, message |-> "Error during payment verification",
          responseHeader |-> "", payload |-> decodedTransaction,
          error |-> CaughtMessage(outcome.e)]
    ELSE [success |-> outcome.v.isValid,
          message |-> IF outcome.v.isValid THEN "Payment verified successfully"
                      ELSE "Invalid payment",
          responseHeader |-> "", payload |-> decodedTransaction, error |-> Undefined]

\* verifyPayment's result {success, message, responseHeader, payload?, error?}
\* from the outcome of the decoding or of the facilitator's verify; a field
\* the result does not have reads undefined
verifyPayment(decodedTransaction, outcome) ==
    IF outcome.throws
    THEN [success |-> FALSE, message |-> "Error during payment verification",
          responseHeader |-> "", payload |-> Undefined,
          error |-> CaughtMessage(outcome.e)]
    ELSE IF ~outcome.v.isValid
    THEN [success |-> FALSE,
          message |-> IF outcome.v.invalidReason # "" THEN outcome.v.invalidReason
                      ELSE "Invalid payment",
          responseHeader |-> "", payload |-> Undefined, error |-> Undefined]
    ELSE [success |-> TRUE, message |-> "Payment verified successfully",
          responseHeader |-> "verify response", payload |-> decodedTransaction,
          error |-> Undefined]

\* settlePayment's result from the facilitator's answer to settle: success
\* whenever the call did not throw, whatever the settlement reports
settlePayment(outcome) ==
    IF outcome.throws
    THEN [success |-> FALSE, message |-> "Error during payment settlement",
          responseHeader |-> "", payload |-> Undefined,
          error |-> CaughtMessage(outcome.e)]
    ELSE [success |-> TRUE, message |-> "Payment settled successfully",
          responseHeader |-> "settle response", payload |-> Undefined,
          error |-> Undefined]

NoTransaction ==
    [transactionHash |-> "", amount |-> "", currency |-> "", chain |-> "",
     fromAddress |-> Undefined, toAddress |-> ""]
\* the record of a payment that was not validated and settled (timestamp left out)
FailedTransaction(p) ==
    [transactionHash |-> p.transactionHash, amount |-> "0",
     currency |-> getCurrencyFromPaymentMethod(p.paymentMethod),
     chain |-> getNetworkFromPaymentMethod(p.paymentMethod).v,
     fromAddress |-> Str(ZeroAddress), toAddress |-> p.recipientAddress]
\* the record of a settled payment
CompletedTransaction(p) ==
    [transactionHash |-> p.transactionHash, amount |-> toString(p.amount),
     currency |-> getCurrencyFromPaymentMethod(p.paymentMethod),
     chain |-> getNetworkFromPaymentMethod(p.paymentMethod).v,
     fromAddress |-> Prop(Prop(Prop(p.payload, "payload"), "authorization"), "from"),
     toAddress |-> p.recipientAddress]

\* a validateAndSettlePayment attempt: pc names the facilitator call awaited;
\* verified and settled are the facilitator's answers
NoFacilitatorAnswer == Throws(Err("not called"))
\* the result of a verifyPayment or settlePayment that was not called
NotCalledResult ==
    [success |-> FALSE, message |-> "", responseHeader |-> "", payload |-> Undefined,
     error |-> Undefined]
\* PaymentResult of the controller: {success, data?, error?, transactionHash?}
NoPaymentResult ==
    [success |-> FALSE, data |-> NoTransaction, error |-> "", transactionHash |-> ""]
NoPayment ==
    [pc |-> "idle", attempt |-> 0, amount |-> 0, paymentMethod |-> "",
     recipientAddress |-> "", transactionHash |-> "", payload |-> Undefined,
     verifyCalls |-> 0, settleCalls |-> 0,
     decoded |-> Returns(Undefined),
     verified |-> NoFacilitatorAnswer, settled |-> NoFacilitatorAnswer,
     verifyResult |-> NotCalledResult, settleResult |-> NotCalledResult,
     outcome |-> "none", transaction |-> NoTransaction, rejection |-> Err(""),
     controller |-> "none", response |-> NoPaymentResult]

\* the attempt ends with the failed record; building it throws again for a
\* payment method without a network, and the attempt then rejects
PaymentFails(p) ==
    IF getNetworkFromPaymentMethod(p.paymentMethod).throws
    THEN [p EXCEPT !.pc = "done", !.outcome = "rejected",
                   !.rejection = getNetworkFromPaymentMethod(p.paymentMethod).e]
    ELSE [p EXCEPT !.pc = "done", !.outcome = "returned",
                   !.transaction = FailedTransaction(p)]

\* a faulty variant: settlement is attempted whatever verification answered
AfterVerify_SettleAnyway(p, verifyResponse) ==
    [p EXCEPT !.pc = "settle", !.settleCalls = @ + 1]

\* validateAndSettlePayment after verifyPayment: the short-circuit on a failed
\* verification, the payload check, then the call of settle
AfterVerify(p, verifyResponse) ==
    IF ~verifyResponse.success THEN PaymentFails(p)
    ELSE IF ~Truthy(verifyResponse.payload) THEN PaymentFails(p)
    ELSE [p EXCEPT !.pc = "settle", !.settleCalls = @ + 1]

\* validateAndSettlePayment from its entry to its first await, on the attempt p
BeginPayment(p, priceOk, decoded) ==
    IF getNetworkFromPaymentMethod(p.paymentMethod).throws \/ ~priceOk
    THEN PaymentFails(p)
    ELSE IF decoded.throws
    THEN AfterVerify([p EXCEPT !.decoded = decoded,
                               !.verifyResult = verifyPayment(Undefined, decoded)],
                     verifyPayment(Undefined, decoded))
    ELSE [p EXCEPT !.pc = "verify", !.verifyCalls = 1, !.decoded = decoded]

\* a new attempt with the arguments of the call
NewPayment(amount, recipientAddress, paymentMethod, transactionHash, decoded) ==
    [NoPayment EXCEPT !.attempt = payment.attempt + 1, !.amount = amount,
                      !.paymentMethod = paymentMethod,
                      !.recipientAddress = recipientAddress,
                      !.transactionHash = transactionHash,
                      !.payload = decoded.v]

\* validateAndSettlePayment is called: the requirements are built (priceOk:
\* the amount converts to atomic units), the header is decoded, verify is called
validateAndSettlePayment(amount, recipientAddress, paymentMethod, transactionHash, priceOk, decoded) ==
    /\ payment.pc \in {"idle", "done"}
    /\ payment.controller # "awaiting"
    /\ payment' = BeginPayment(NewPayment(amount, recipientAddress, paymentMethod,
                                          transactionHash, decoded),
                               priceOk, decoded)
    /\ UNCHANGED <<gatewayVars, enrichVars, calls, ops, signing, validation, parsing, remote>>

\* the facilitator answers verify
PaymentVerify(outcome) ==
    /\ payment.pc = "verify"
    /\ payment' = AfterVerify([payment EXCEPT
                                  !.verified = outcome,
                                  !.verifyResult = verifyPayment(payment.payload, outcome)],
                              verifyPayment(payment.payload, outcome))
    /\ UNCHANGED <<gatewayVars, enrichVars, calls, ops, signing, validation, parsing, remote>>

\* the facilitator answers settle: the record is returned
PaymentSettle(outcome) ==
    /\ payment.pc = "settle"
    /\ LET p == [payment EXCEPT !.settled = outcome,
                                !.settleResult = settlePayment(outcome)]
       IN payment' =
             IF settlePayment(outcome).success
             THEN [p EXCEPT !.pc = "done", !.outcome = "returned",
                            !.transaction = CompletedTransaction(p)]
             ELSE PaymentFails(p)
    /\ UNCHANGED <<gatewayVars, enrichVars, calls, ops, signing, validation, parsing, remote>>

----------------------------------------------------------------------------
(* Signing a payment: createSignedTransaction and the helpers it calls, in *)
(* the two implementations of the repository (impl "utils": the exported   *)
(* functions; impl "service": BlockchainPaymentService of                  *)
(* services/blockchain-payment.service.ts)                                 *)

FailedToCreateSignedTransaction == "Failed to create signed transaction"

\* getChainFromPaymentMethod: the chain, or its throwing for any other tag
getChainFromPaymentMethod(paymentMethod) ==
    CASE paymentMethod = "USDC_BASE_MAINNET" -> Returns("base")
      [] paymentMethod = "USDC_BASE_SEPOLIA" -> Returns("baseSepolia")
      [] OTHER -> Throws(Err(UnsupportedPaymentMethod))

\* the exported getNetworkFromPaymentMethod: a switch with a throwing default
Utils_getNetworkFromPaymentMethod(paymentMethod) ==
    CASE paymentMethod = "USDC_BASE_MAINNET" -> Returns("base")
      [] paymentMethod = "USDC_BASE_SEPOLIA" -> Returns("base-sepolia")
      [] OTHER -> Throws(Err(UnsupportedPaymentMethod))

\* the service's getNetworkFromPaymentMethod: a switch without a default, so
\* the function falls off its end for any other tag and returns undefined
Service_getNetworkFromPaymentMethod(paymentMethod) ==
    CASE paymentMethod = "USDC_BASE_MAINNET" -> Returns("base")
      [] paymentMethod = "USDC_BASE_SEPOLIA" -> Returns("base-sepolia")
      [] OTHER -> Returns(Undefined)

NetworkOf(impl, paymentMethod) ==
    IF impl = "utils" THEN Utils_getNetworkFromPaymentMethod(paymentMethod)
    ELSE Service_getNetworkFromPaymentMethod(paymentMethod)

\* createx402PaymentRequirements / createExactPaymentRequirements: the
\* network, then the conversion of the price (priceOk: it converts)
PaymentRequirementsOf(impl, paymentMethod, priceOk) ==
    IF NetworkOf(impl, paymentMethod).throws THEN NetworkOf(impl, paymentMethod)
    ELSE IF ~priceOk THEN Throws(Err("price conversion error"))
    ELSE Returns(Undefined)

\* privateKeyToAccount (keyOk: the key is one)
AccountOf(keyOk) ==
    IF keyOk THEN Returns(Undefined) ELSE Throws(Err("invalid private key"))

\* the first statement to throw before the header builder is called, in the
\* order of the implementation: chain, signer, requirements in the exported
\* function; chain, requirements, signer in the service
SetupOf(impl, paymentMethod, priceOk, keyOk) ==
    LET chain == getChainFromPaymentMethod(paymentMethod)
        requirements == PaymentRequirementsOf(impl, paymentMethod, priceOk)
        account == AccountOf(keyOk)
    IN IF chain.throws THEN chain
       ELSE IF impl = "utils"
       THEN (IF account.throws THEN account ELSE requirements)
       ELSE (IF requirements.throws THEN requirements ELSE account)

\* a createSignedTransaction call: pc "header" while the header builder
\* runs; cause is the failure that happened inside, error what the call
\* rejected with; network is the answer of a direct getNetworkFromPaymentMethod
NoSigning ==
    [pc |-> "idle", attempt |-> 0, kind |-> "none", impl |-> "none",
     paymentMethod |-> "", outcome |-> "none", value |-> Undefined,
     cause |-> Err(""), error |-> Err(""), network |-> Returns(Undefined)]

\* getNetworkFromPaymentMethod is called with a tag
networkOf(impl, paymentMethod) ==
    /\ signing.pc \in {"idle", "done"}
    /\ signing' = [NoSigning EXCEPT !.pc = "done", !.attempt = signing.attempt + 1,
                                    !.kind = "network", !.impl = impl,
                                    !.paymentMethod = paymentMethod,
                                    !.network = NetworkOf(impl, paymentMethod)]
    /\ UNCHANGED <<gatewayVars, enrichVars, calls, payment, ops, validation, parsing, remote>>

\* what the call rejects with when a statement before the header builder
\* threw: the exported function's catch block replaces the cause, the
\* service has no catch block
SignRejection(impl, cause) ==
    IF impl = "utils" THEN Err(FailedToCreateSignedTransaction) ELSE cause

\* createSignedTransaction is called and runs up to the header builder
createSignedTransaction(impl, paymentMethod, priceOk, keyOk) ==
    /\ signing.pc \in {"idle", "done"}
    /\ LET setup == SetupOf(impl, paymentMethod, priceOk, keyOk)
           call == [NoSigning EXCEPT !.attempt = signing.attempt + 1,
                                     !.kind = "sign", !.impl = impl,
                                     !.paymentMethod = paymentMethod]
       IN signing' =
             IF setup.throws
             THEN [call EXCEPT !.pc = "done", !.outcome = "rejected",
                               !.cause = setup.e,
                               !.error = SignRejection(impl, setup.e)]
             ELSE [call EXCEPT !.pc = "header"]
    /\ UNCHANGED <<gatewayVars, enrichVars, calls, payment, ops, validation, parsing, remote>>

\* the header builder settles.  The exported function returns the builder's
\* promise from inside its try block without awaiting it, the service awaits
\* it outside any try block: either way a rejection of the builder is the
\* rejection of the call
SignHeader(outcome) ==
    /\ signing.pc = "header"
    /\ signing' =
          IF outcome.throws
          THEN [signing EXCEPT !.pc = "done", !.outcome = "rejected",
                               !.cause = outcome.e, !.error = outcome.e]
          ELSE [signing EXCEPT !.pc = "done", !.outcome = "returned",
                               !.value = outcome.v]
    /\ UNCHANGED <<gatewayVars, enrichVars, calls, payment, ops, validation, parsing, remote>>

----------------------------------------------------------------------------
(* ServiceRegistryService.validateServiceParams *)

\* an object given by its own property names, in the order of Object.keys
Keyed(keys) == [t |-> "object", keys |-> keys]
\* Object.keys(v || {})
ObjectKeys(v) == IF Truthy(v) THEN v.keys ELSE <<>>
\* keys.includes(k)
Includes(keys, k) == \E i \in 1..Len(keys) : keys[i] = k

\* a faulty variant: the provided names are checked before the declared ones
ParamsVerdict_ExtraFirst(params, providedParams) ==
    LET requiredParams == ObjectKeys(params)
        providedParamKeys == ObjectKeys(providedParams)
        missing == SelectSeq(requiredParams, LAMBDA k : ~Includes(providedParamKeys, k))
        extra == SelectSeq(providedParamKeys, LAMBDA k : ~Includes(requiredParams, k))
    IN IF extra # <<>>
       THEN Throws(Err("Extra parameter provided: " \o Head(extra)))
       ELSE IF missing # <<>>
       THEN Throws(Err("Missing required parameter: " \o Head(missing)))
       ELSE Returns(Undefined)

\* the two loops of validateServiceParams: the first declared name that was
\* not provided throws, then the first provided name that was not declared
ParamsVerdict(params, providedParams) ==
    LET requiredParams == ObjectKeys(params)
        providedParamKeys == ObjectKeys(providedParams)
        missing == SelectSeq(requiredParams, LAMBDA k : ~Includes(providedParamKeys, k))
        extra == SelectSeq(providedParamKeys, LAMBDA k : ~Includes(requiredParams, k))
    IN IF missing # <<>>
       THEN Throws(Err("Missing required parameter: " \o Head(missing)))
       ELSE IF extra # <<>>
       THEN Throws(Err("Extra parameter provided: " \o Head(extra)))
       ELSE Returns(Undefined)

NoValidation ==
    [called |-> FALSE, params |-> Undefined, providedParams |-> Undefined,
     outcome |-> Returns(Undefined)]

\* validateServiceParams(service, providedParams), params being service.params
validateServiceParams(params, providedParams) ==
    /\ validation' = [called |-> TRUE, params |-> params,
                      providedParams |-> providedParams,
                      outcome |-> ParamsVerdict(params, providedParams)]
    /\ UNCHANGED <<gatewayVars, enrichVars, calls, payment, ops, signing, parsing, remote>>

----------------------------------------------------------------------------
(* PaymentController.handleValidatePayment *)

RequiredFieldsMissing ==
    "transactionHash, paymentMethod, amount, and userAddress are required for payment validation"
\* `Failed to validate payment: ${error.message}`
FailedToValidate == "Failed to validate payment"

\* !request.transactionHash || !request.paymentMethod || !request.amount || !request.userAddress
MissingFields(request) ==
    \/ request.transactionHash = ""
    \/ request.paymentMethod = ""
    \/ request.amount = 0
    \/ request.userAddress = ""

\* the response built once validateAndSettlePayment has settled: the catch
\* for a rejection, success for every record (a record is never falsy)
PaymentResultOf(p) ==
    IF p.outcome = "rejected"
    THEN [NoPaymentResult EXCEPT !.error = FailedToValidate]
    ELSE [success |-> TRUE, data |-> p.transaction, error |-> "",
          transactionHash |-> p.transactionHash]

\* handleValidatePayment is called: the required-field check, then
\* validateAndSettlePayment up to its first await
handleValidatePayment(request, priceOk, decoded) ==
    /\ payment.pc \in {"idle", "done"}
    /\ payment.controller # "awaiting"
    /\ LET p == NewPayment(request.amount, request.userAddress, request.paymentMethod,
                           request.transactionHash, decoded)
       IN payment' =
             IF MissingFields(request)
             THEN [p EXCEPT !.controller = "returned",
                            !.response = [NoPaymentResult EXCEPT
                                             !.error = RequiredFieldsMissing]]
             ELSE BeginPayment([p EXCEPT !.controller = "awaiting"], priceOk, decoded)
    /\ UNCHANGED <<gatewayVars, enrichVars, calls, ops, signing, validation, parsing, remote>>

\* validateAndSettlePayment has settled: handleValidatePayment returns
HandleValidatePaymentReturn ==
    /\ payment.controller = "awaiting"
    /\ payment.pc = "done"
    /\ payment' = [payment EXCEPT !.controller = "returned",
                                  !.response = PaymentResultOf(payment)]
    /\ UNCHANGED <<gatewayVars, enrichVars, calls, ops, signing, validation, parsing, remote>>

----------------------------------------------------------------------------
(* The enrichment pipeline's specification: a call of                      *)
(* exploreAndEnrichServices on a new ServiceRegistryService, the servers   *)
(* explored concurrently, every remote operation free to succeed or fail.  *)

NoCalls == [c \in 1..MaxCalls |-> IdleCall]

GatewayInit ==
    /\ connections = [u \in URLs |-> NoClient]
    /\ disconnected = {}

EnrichInit ==
    /\ GatewayInit
    /\ runs = 0
    /\ run = NoRun
    /\ task = <<>>
    /\ registry = NoRegistry
    /\ calls = NoCalls
    /\ payment = NoPayment
    /\ ops = NoOps
    /\ signing = NoSigning
    /\ validation = NoValidation
    /\ parsing = NoParsing
    /\ remote = NoRemote

EnrichCategories == {NoCategory, CatAI}
EnrichPricingOutcomes ==
    {Returns(Envelope("{items:[svc1,svc2]}")), Returns(Envelope("{items:[noprice]}")),
     Returns(Envelope("not json")), Throws(Err("remote failure"))}
EnrichPaymentOutcomes ==
    {Returns(Envelope("[mainnet,sepolia]")), Returns(Envelope("[mainnet-empty-wallet]")),
     Returns(Envelope("[{walletAddress:1}]")), Throws(Err("remote failure"))}
ConnectOutcomes == {Returns(Undefined)} \cup {Throws(e) : e \in Failures}
DisconnectOutcomes == {Returns(Undefined), Throws(Err("disconnect failure"))}

EnrichNext ==
    \/ \E servers \in ServerLists(MaxServers), category \in EnrichCategories :
          /\ runs = 0
          /\ exploreAndEnrichServices(servers, category, DefaultMaxServers, FALSE)
    \/ \E i \in DOMAIN task, ok \in BOOLEAN : ExploreConnectSSE(i, ok)
    \/ \E i \in DOMAIN task, outcome \in ConnectOutcomes :
          ExploreConnectStreamable(i, outcome)
    \/ \E i \in DOMAIN task, outcome \in EnrichPricingOutcomes :
          ExplorePricing(i, "pricing-listing", outcome)
    \/ \E i \in DOMAIN task, outcome \in EnrichPricingOutcomes :
          ExplorePricing(i, "price-listing", outcome)
    \/ \E i \in DOMAIN task, outcome \in EnrichPaymentOutcomes :
          ExplorePaymentMethods(i, outcome)
    \/ \E i \in DOMAIN task, outcome \in DisconnectOutcomes :
          ExploreDisconnect(i, outcome)
    \/ Aggregate

SpecEnrich == EnrichInit /\ [][EnrichNext]_vars

----------------------------------------------------------------------------
(* Claims about the enrichment pipeline *)

Explored == DOMAIN task
Succeeded == {i \in Explored : ~task[i].failed}
ErrorEntriesOf(i) ==
    {k \in 1..Len(registry.errors) :
        registry.errors[k].serverName = run.limitedServers[i].name}
ServicesOf(i) ==
    {k \in 1..Len(registry.services) :
        registry.services[k].serverInfo.serverName = run.limitedServers[i].name}
\* every enriched service built or returned so far
AllEnriched ==
    UNION {{task[i].services[k] : k \in 1..Len(task[i].services)} : i \in Explored}
    \cup (IF registry.returned
          THEN {registry.services[k] : k \in 1..Len(registry.services)}
          ELSE {})

RECURSIVE SumServices(_)
SumServices(S) ==
    IF S = {} THEN 0
    ELSE LET i == CHOOSE x \in S : TRUE
         IN Len(task[i].services) + SumServices(S \ {i})

\* C1: every enriched service, in every registry returned and in every
\* server's result, has executionReady exactly when its paymentInfo.walletAddress
\* is not the empty string -- also when a payment row matched the item's tag
\* and carries an empty wallet address.
C1_ExecutionReadyIffWallet ==
    \A s \in AllEnriched :
        s.executionReady = (s.paymentInfo.walletAddress # Str(""))

\* a returned registry holds a service whose tag matched a row with an empty
\* wallet address, next to one with a wallet address
C1_Witness ==
    /\ registry.returned
    /\ \E k \in 1..Len(registry.services) :
          /\ registry.services[k].paymentInfo =
                [walletAddress |-> Str(""), paymentMethod |-> Str("USDC_BASE_MAINNET")]
          /\ ~registry.services[k].executionReady
    /\ \E k \in 1..Len(registry.services) :
          /\ registry.services[k].paymentInfo.walletAddress = Str("0xW1")
          /\ registry.services[k].executionReady

\* C2: in a returned registry every explored server has exactly one outcome:
\* a server whose exploration threw has one error entry naming it and no
\* service, a server that succeeded has no error entry; totalServicesFound is
\* the sum of the succeeded servers' service counts, and succeeded servers plus
\* error entries make up totalServersExplored.
C2_OneOutcomePerServer ==
    registry.returned =>
        /\ \A i \in Explored :
              IF task[i].failed
              THEN /\ Cardinality(ErrorEntriesOf(i)) = 1
                   /\ \A k \in ErrorEntriesOf(i) :
                         registry.errors[k].error = MessageOf(task[i].error)
                   /\ ServicesOf(i) = {}
              ELSE ErrorEntriesOf(i) = {}
        /\ registry.totalServicesFound = SumServices(Succeeded)
        /\ Cardinality(Succeeded) + Len(registry.errors) = registry.totalServersExplored
        /\ registry.totalServersExplored = Cardinality(Explored)

\* two servers explored: one failed to connect, the other delivered services
C2_Witness ==
    /\ registry.returned
    /\ registry.totalServersExplored = 2
    /\ Len(registry.errors) = 1
    /\ registry.totalServicesFound = 2
    /\ \E i \in Explored : task[i].failed /\ task[i].client = NoClient

\* C3: a registry is returned only once every explored server's exploration
\* has settled, whatever the order in which they settle.
C3_RegistryAfterAllSettled ==
    registry.returned => \A i \in Explored : task[i].pc = "settled"

\* a registry returned after one exploration failed at its first step and
\* another ran through all of its steps
C3_Witness ==
    /\ registry.returned
    /\ \E i, j \in Explored :
          /\ task[i].failed /\ task[i].disconnects = 0
          /\ ~task[j].failed /\ task[j].disconnects = 1

----------------------------------------------------------------------------
(* The execution orchestrator's specification: executeService called up to *)
(* MaxCalls times on one gateway, one call after the other, every          *)
(* collaborator free to succeed or fail.                                   *)

ExecService(ready, wallet, url, amount, tag) ==
    [id |-> Str("svc1"), executionReady |-> ready,
     price |-> [amount |-> amount, currency |-> Str("USDC"), paymentMethod |-> Str(tag)],
     serverInfo |-> [mcpServerUrl |-> url],
     paymentInfo |-> [walletAddress |-> wallet, paymentMethod |-> Str(tag)]]
ExecServices ==
    {ExecService(TRUE, Str("0xW1"), "u1", Num(1), "USDC_BASE_MAINNET"),
     ExecService(TRUE, Str("0xW1"), "u1", Num(0), "USDC_BASE_SEPOLIA"),
     ExecService(TRUE, Str("0xW1"), "u1", Num(1), "UNKNOWN_TAG"),
     ExecService(FALSE, Str(""), "u1", Num(1), "UNKNOWN_TAG"),
     ExecService(FALSE, Str("0xW1"), "u1", Num(1), "USDC_BASE_MAINNET"),
     ExecService(TRUE, Str(""), "u1", Num(1), "USDC_BASE_MAINNET"),
     ExecService(TRUE, Str("0xW1"), "", Num(1), "USDC_BASE_MAINNET"),
     ExecService(TRUE, Str("0xW1"), "u1", Num(-1), "USDC_BASE_MAINNET"),
     ExecService(FALSE, Str("0xW1"), "", Num(-1), "USDC_BASE_MAINNET"),
     ExecService(TRUE, Str(""), "", Num(-1), "USDC_BASE_MAINNET"),
     ExecService(TRUE, Str("0xW1"), "", Num(-1), "USDC_BASE_MAINNET")}
ExecRequests ==
    {[serviceId |-> id, serverUrl |-> u, pkpPrivateKey |-> "0xkey",
      params |-> Obj([q |-> Str("query")])] :
        id \in {"svc1", "svc2"}, u \in URLs}
ExecListingOutcomes ==
    {Returns(Envelope("{items:[svc1,svc2]}")), Returns(Envelope("{items:[svc1]}")),
     Returns(Envelope("{items:[]}")), Returns(Envelope("{items:[null]}")),
     Returns(Envelope("{items:'none'}")), Returns(Envelope("not json")),
     Returns(Envelope("null")), Returns(EmptyEnvelope)}
        \cup {Throws(e) : e \in Failures}
\* createSignedTransaction returns the header builder's promise unawaited, so
\* the builder's own rejection reaches the caller as it is
SignOutcomes ==
    {Returns([signedTransaction |-> Str("0xsigned")]),
     Throws(Err("Failed to create signed transaction")),
     Throws(Err("header builder failure")), Throws(NonError)}
ExecPurchaseOutcomes ==
    {Returns(Envelope("{toolResult:'Payment failed'}")),
     Returns(Envelope("{toolResult:'done'}")), Returns(Envelope("{result:'success'}")),
     Returns(Envelope("not json")), Returns(Envelope("42")),
     Returns(Str("{toolResult:'Payment failed'}")),
     Returns(Obj([toolResult |-> Str("Payment failed")])),
     Returns(EmptyEnvelope)}
        \cup {Throws(e) : e \in Failures}

CallIds == 1..MaxCalls
\* calls are made one after the other: the earlier ones are over and taken
NextCall(c) ==
    /\ calls[c].pc = "idle"
    /\ \A d \in CallIds : d < c => calls[d].pc = "retired"

ExecNext ==
    \/ \E c \in CallIds, request \in ExecRequests, service \in ExecServices :
          /\ NextCall(c)
          /\ executeService(c, request, service)
    \/ \E c \in CallIds, ok \in BOOLEAN : ExecuteConnectSSE(c, ok)
    \/ \E c \in CallIds, outcome \in ConnectOutcomes : ExecuteConnectStreamable(c, outcome)
    \/ \E c \in CallIds, outcome \in ExecListingOutcomes : ExecuteVerify(c, outcome)
    \/ \E c \in CallIds, outcome \in SignOutcomes : ExecuteSign(c, outcome)
    \/ \E c \in CallIds, outcome \in ExecPurchaseOutcomes : ExecutePurchase(c, outcome)
    \/ \E c \in CallIds, outcome \in DisconnectOutcomes : ExecuteDisconnect(c, outcome)
    \/ \E c \in CallIds : Retire(c)

SpecExec == EnrichInit /\ [][ExecNext]_vars

----------------------------------------------------------------------------
(* Claims about the execution orchestrator *)

Started == {c \in CallIds : calls[c].pc \notin {"idle", "retired"}}
Finished == {c \in CallIds : calls[c].pc = "done"}
\* the service fails one of the four validity checks
FailsValidation(service) ==
    \/ ~service.executionReady
    \/ service.paymentInfo.walletAddress = Str("")
    \/ service.serverInfo.mcpServerUrl = ""
    \/ (service.price.amount.t = "number" /\ service.price.amount.n < 0)

\* C4: a call with a service that fails validation returns success=false and
\* has made no getConnection call, no tool call, no signing and no disconnect.
C4_ValidationFailureTouchesNothing ==
    \A c \in Started :
        FailsValidation(calls[c].service) =>
            /\ calls[c].pc = "done"
            /\ calls[c].outcome = "returned"
            /\ ~calls[c].result.success
            /\ calls[c].getConnectionCalls = 0
            /\ calls[c].toolCalls = <<>>
            /\ calls[c].signCalls = 0
            /\ calls[c].disconnectCalls = 0
            /\ calls[c].client = NoClient

C4_Witness ==
    \E c \in Finished :
        /\ calls[c].service.price.amount = Num(-1)
        /\ calls[c].service.executionReady
        /\ calls[c].result = FailureResult(InvalidPrice)
        /\ calls[c].getConnectionCalls = 0

\* C5: a call that obtained a connection has called disconnect on it exactly
\* once by the time it completes, on every exit path; a call that obtained
\* none never calls disconnect; disconnect is never called before the
\* cleanup phase.
C5_DisconnectExactlyOnce ==
    \A c \in Started :
        /\ calls[c].pc = "done" /\ calls[c].client # NoClient =>
              calls[c].disconnectCalls = 1 /\ calls[c].client \in disconnected
        /\ calls[c].client = NoClient => calls[c].disconnectCalls = 0
        /\ calls[c].pc \notin {"done", "disconnect"} => calls[c].disconnectCalls = 0
        /\ calls[c].disconnectCalls <= 1

C5_Witness ==
    \E c \in Finished :
        /\ calls[c].client # NoClient
        /\ calls[c].result = FailureResult(NoLongerAvailable)
        /\ calls[c].disconnectCalls = 1

\* C6: executeService never rejects: a completed call has returned a result
\* that is success=true, or success=false with an error message.
C6_NeverRejects ==
    \A c \in Finished :
        /\ calls[c].outcome = "returned"
        /\ calls[c].result.success \/ calls[c].result.error # NoError

\* the purchase succeeded, disconnect rejected, and so did the call
C6_Witness ==
    \E c \in Finished :
        /\ calls[c].outcome = "rejected"
        /\ calls[c].rejection = Err("disconnect failure")
        /\ calls[c].result.success

\* the listing holds an item whose id is the requested one
ListingHasItem(listing, serviceId) ==
    LET parsed == Execution_parseToolResult(listing)
        items == IF IsObjectLike(parsed) THEN Prop(parsed, "items") ELSE Undefined
    IN /\ IsArray(items)
       /\ \E k \in 1..Len(items.elems) :
             /\ IsObjectLike(items.elems[k])
             /\ Prop(items.elems[k], "id") = Str(serviceId)

\* C7: when the fresh price listing holds no item with the requested id, the
\* call returns success=false with the 'no longer available' error and has
\* neither signed nor called make-purchase.
C7_AbsentItemIsNoLongerAvailable ==
    \A c \in Finished :
        /\ ~calls[c].listing.throws
        /\ ~ListingHasItem(calls[c].listing.v, calls[c].request.serviceId)
        => /\ calls[c].outcome = "returned"
           /\ calls[c].result = FailureResult(NoLongerAvailable)
           /\ calls[c].signCalls = 0
           /\ \A k \in DOMAIN calls[c].toolCalls : calls[c].toolCalls[k] # "make-purchase"


\* a listing whose only entry is null: the call returns the TypeError's message
C7_Witness ==
    \E c \in Finished :
        /\ calls[c].listing = Returns(Envelope("{items:[null]}"))
        /\ calls[c].outcome = "returned"
        /\ calls[c].result = FailureResult(TypeErrorMessage)
        /\ calls[c].signCalls = 0

\* C8: when make-purchase returns, a parsed response carrying the sentinel
\* makes the call return success=false with 'Payment verification failed';
\* any other response makes it return success=true with the parsed value.
C8_SentinelDecidesPurchase ==
    \A c \in Finished :
        ~calls[c].purchase.throws =>
            LET parsed == Execution_parseToolResult(calls[c].purchase.v)
            IN /\ calls[c].outcome = "returned"
               /\ IF IsObjectLike(parsed) /\ Prop(parsed, "toolResult") = Str("Payment failed")
                  THEN calls[c].result = FailureResult(PaymentVerificationFailed)
                  ELSE calls[c].result.success /\ calls[c].result.result = parsed


\* a purchase answered without the sentinel, in a call that rejected
C8_Witness ==
    \E c \in Finished :
        /\ calls[c].purchase = Returns(Envelope("{toolResult:'done'}"))
        /\ calls[c].outcome = "rejected"

----------------------------------------------------------------------------
(* The payment validation flow's specification: up to MaxAttempts calls of *)
(* validateAndSettlePayment, one after the other, the header decoder and   *)
(* the facilitator free to answer anything.                                *)

PayAmounts == {1, 5}
PayMethods == {"USDC_BASE_MAINNET", "USDC_BASE_SEPOLIA", "UNKNOWN_TAG"}
PayRecipients == {"0xR1"}
PayHashes == {"h1", "h2"}
\* decodePayment; a decoder handing back nothing covers the payload check
DecodeOutcomes ==
    {Returns(PaymentPayload("0xA")), Returns(PaymentPayload("0xB")), Returns(Undefined),
     Throws(Err("decode failure"))}
VerifyOutcomes ==
    {Returns([isValid |-> TRUE, invalidReason |-> ""]),
     Returns([isValid |-> FALSE, invalidReason |-> "insufficient_funds"]),
     Returns([isValid |-> FALSE, invalidReason |-> ""])}
        \cup {Throws(e) : e \in Failures}
SettleOutcomes ==
    {Returns([success |-> TRUE]), Returns([success |-> FALSE])}
        \cup {Throws(e) : e \in Failures}

PayNext ==
    \/ \E amount \in PayAmounts, recipientAddress \in PayRecipients,
          paymentMethod \in PayMethods, transactionHash \in PayHashes,
          priceOk \in BOOLEAN, decoded \in DecodeOutcomes :
          /\ payment.attempt < MaxAttempts
          /\ validateAndSettlePayment(amount, recipientAddress, paymentMethod,
                                      transactionHash, priceOk, decoded)
    \/ \E outcome \in VerifyOutcomes : PaymentVerify(outcome)
    \/ \E outcome \in SettleOutcomes : PaymentSettle(outcome)

SpecPay == EnrichInit /\ [][PayNext]_vars

----------------------------------------------------------------------------
(* Claims about the payment validation flow *)

\* the facilitator reported the payment valid and a payload came with it
VerifySucceeded ==
    /\ ~payment.verified.throws
    /\ payment.verified.v.isValid
    /\ payment.payload # Undefined
\* the facilitator settled the payment
SettleSucceeded == ~payment.settled.throws /\ payment.settled.v.success

\* C9: settle is called only after a verification that succeeded with a
\* payload, and an attempt calls verify at most once and settle at most once.
C9_SettleOnlyAfterVerify ==
    /\ payment.settleCalls > 0 => payment.verifyCalls = 1 /\ VerifySucceeded
    /\ payment.verifyCalls <= 1
    /\ payment.settleCalls <= 1

C9_Witness ==
    /\ payment.pc = "done"
    /\ payment.verifyCalls = 1
    /\ ~payment.verified.throws
    /\ ~payment.verified.v.isValid
    /\ payment.settleCalls = 0

\* C10: a finished attempt has returned the completed record (the requested
\* amount, the payer of the verified payload, the recipient) if verification
\* and settlement both succeeded, and the failed record (amount '0', zero
\* payer) for the same transactionHash otherwise.
C10_CompletedIffVerifiedAndSettled ==
    payment.pc = "done" =>
        /\ payment.outcome = "returned"
        /\ payment.transaction.transactionHash = payment.transactionHash
        /\ payment.transaction.toAddress = payment.recipientAddress
        /\ IF VerifySucceeded /\ SettleSucceeded
           THEN /\ payment.transaction.amount = toString(payment.amount)
                /\ payment.transaction.fromAddress =
                      payment.payload.props.payload.props.authorization.props.from
           ELSE /\ payment.transaction.amount = "0"
                /\ payment.transaction.fromAddress = Str(ZeroAddress)

\* the facilitator answered settle with success=false and the completed
\* record was returned
C10_Witness ==
    /\ payment.pc = "done"
    /\ VerifySucceeded
    /\ payment.settled = Returns([success |-> FALSE])
    /\ payment.outcome = "returned"
    /\ payment.transaction.amount = toString(payment.amount)

----------------------------------------------------------------------------
(* The payment controller's specification: up to MaxAttempts calls of      *)
(* handleValidatePayment, one after the other.                             *)

ControllerRequests ==
    [transactionHash : {"", "h1"}, paymentMethod : PayMethods \cup {""},
     amount : {0, 1}, userAddress : {"", "0xR1"}]

ControllerNext ==
    \/ \E request \in ControllerRequests, priceOk \in BOOLEAN, decoded \in DecodeOutcomes :
          /\ payment.attempt < MaxAttempts
          /\ handleValidatePayment(request, priceOk, decoded)
    \/ \E outcome \in VerifyOutcomes : PaymentVerify(outcome)
    \/ \E outcome \in SettleOutcomes : PaymentSettle(outcome)
    \/ HandleValidatePaymentReturn

SpecController == EnrichInit /\ [][ControllerNext]_vars

\* C11: a response of handleValidatePayment to a complete request has
\* success=true exactly when the payment was verified and settled, and the
\* call always returns a response.
C11_SuccessIffVerifiedAndSettled ==
    /\ payment.controller = "returned" /\ payment.pc = "done" =>
          (payment.response.success <=> VerifySucceeded /\ SettleSucceeded)
    /\ payment.controller = "returned" /\ payment.pc # "done" =>
          ~payment.response.success

\* the facilitator reported the payment invalid and the response says success
C11_Witness ==
    /\ payment.controller = "returned"
    /\ ~payment.verified.throws
    /\ ~payment.verified.v.isValid
    /\ payment.settleCalls = 0
    /\ payment.response.success
    /\ payment.response.data.amount = "0"

----------------------------------------------------------------------------
(* The connection cache's specification: up to MaxOps operations called on *)
(* one McpGatewayService, overlapping freely, every connect and disconnect *)
(* free to succeed or fail.                                                *)

OpIds == 1..MaxOps
\* operations are called in the order of their ids
NextOp(o) ==
    /\ ops[o].pc = "idle"
    /\ \A q \in OpIds : q < o => ops[q].pc # "idle"
SSEOutcomes == {Returns(Undefined), Throws(Err("sse failure"))}

GatewayNext ==
    \/ \E o \in OpIds, url \in URLs : NextOp(o) /\ getConnection(o, url)
    \/ \E o \in OpIds, outcome \in SSEOutcomes : GetConnectionSSE(o, outcome)
    \/ \E o \in OpIds, outcome \in ConnectOutcomes : GetConnectionStreamable(o, outcome)
    \/ \E o \in OpIds, url \in URLs : NextOp(o) /\ closeConnection(o, url)
    \/ \E o \in OpIds, outcome \in DisconnectOutcomes : CloseConnectionDisconnect(o, outcome)
    \/ \E o \in OpIds : NextOp(o) /\ closeAllConnections(o)
    \/ \E o \in OpIds, outcome \in DisconnectOutcomes :
          \E client \in ops[o].pending : CloseAllDisconnect(o, client, outcome)
    \/ \E o \in OpIds : CloseAllClear(o)

SpecGateway == EnrichInit /\ [][GatewayNext]_vars

----------------------------------------------------------------------------
(* Claims about the connection cache *)

GetOps == {o \in OpIds : ops[o].kind = "getConnection"}
CloseOps == {o \in OpIds : ops[o].kind = "closeConnection"}
CloseAllOps == {o \in OpIds : ops[o].kind = "closeAllConnections"}

\* C12: a getConnection call that finds its URL cached returns the cached
\* instance at once, constructs no client and makes no connect call, so a
\* second call in a row returns the instance the first one opened.
C12_GetConnectionIdempotent ==
    \A o \in GetOps :
        ops[o].existing # NoClient =>
            /\ ops[o].pc = "done"
            /\ ops[o].outcome = "returned"
            /\ ops[o].client = ops[o].existing
            /\ ops[o].attempts = <<>>

C12_Witness ==
    \E o \in GetOps :
        /\ o + 1 \in GetOps
        /\ ops[o + 1].url = ops[o].url
        /\ ops[o].attempts # <<>>
        /\ ops[o].outcome = "returned"
        /\ ops[o + 1].outcome = "returned"
        /\ ops[o + 1].client = ops[o].client
        /\ ops[o + 1].attempts = <<>>

\* C13: as long as nothing was closed, the getConnection calls for one URL
\* all return the same instance, which is the one in the cache (one
\* connection per URL, none left outside the cache).
C13_OneConnectionPerUrl ==
    CloseOps \cup CloseAllOps = {} =>
        \A o \in GetOps :
            ops[o].outcome = "returned" => ops[o].client = connections[ops[o].url]

\* two overlapping calls for one URL opened a connection each; the first
\* one is no longer in the cache
C13_Witness ==
    \E o, q \in GetOps :
        /\ CloseOps \cup CloseAllOps = {}
        /\ ops[o].url = ops[q].url
        /\ ops[o].outcome = "returned"
        /\ ops[q].outcome = "returned"
        /\ ops[o].client # ops[q].client
        /\ connections[ops[o].url] = ops[q].client

\* C14: a getConnection call that misses the cache connects the SSE
\* transport first and the Streamable transport only after the SSE attempt
\* failed, both against its URL; when it returns, it returns the client of
\* the attempt that succeeded, and the cache holds that client under the URL
\* at that moment.
C14_PreferredThenFallback ==
    [][\A o \in OpIds :
          ops'[o].kind = "getConnection" =>
             /\ ops'[o].attempts \in
                   {<<>>, <<[tr |-> "sse", url |-> ops'[o].url]>>,
                    <<[tr |-> "sse", url |-> ops'[o].url],
                      [tr |-> "streamable", url |-> ops'[o].url]>>}
             /\ Len(ops'[o].attempts) = 2 => ops'[o].sseError # Err("")
             /\ (ops[o].pc # "done" /\ ops'[o].outcome = "returned"
                    /\ ops'[o].existing = NoClient) =>
                   /\ ops'[o].client =
                         GatewayClient(o, ops'[o].attempts[Len(ops'[o].attempts)].tr)
                   /\ connections'[ops'[o].url] = ops'[o].client]_vars

C14_Witness ==
    \E o \in GetOps :
        /\ Len(ops[o].attempts) = 2
        /\ ops[o].outcome = "returned"
        /\ ops[o].client = GatewayClient(o, "streamable")
        /\ connections[ops[o].url] = ops[o].client

\* C15: when both connect attempts fail, getConnection rejects with the
\* fallback's error, not the SSE attempt's, and leaves the cache as it was;
\* a call that finds no entry for its URL connects again.
C15_BothFailRejectsWithFallbackError ==
    [][\A o \in OpIds :
          /\ (ops[o].pc = "streamable" /\ ops'[o].outcome = "rejected") =>
                /\ ops'[o].error \in Failures
                /\ ops'[o].error # ops'[o].sseError
                /\ connections' = connections
          /\ (ops'[o].kind = "getConnection" /\ ops'[o].existing = NoClient) =>
                ops'[o].attempts # <<>>]_vars

C15_Witness ==
    \E o \in GetOps :
        /\ ops[o].outcome = "rejected"
        /\ ops[o].error = NonError
        /\ ops[o].sseError = Err("sse failure")
        /\ connections[ops[o].url] = NoClient
        /\ o + 1 \in GetOps
        /\ ops[o + 1].url = ops[o].url
        /\ ops[o + 1].existing = NoClient
        /\ ops[o + 1].attempts # <<>>

\* C16: a finished closeConnection(url) has returned; when the URL was
\* cached, disconnect was called on its client and the client is no longer
\* the entry of the URL.
C16_CloseConnectionEvicts ==
    \A o \in CloseOps :
        ops[o].pc = "done" =>
            /\ ops[o].outcome = "returned"
            /\ ops[o].existing # NoClient =>
                  /\ ops[o].existing \in disconnected
                  /\ connections[ops[o].url] # ops[o].existing

\* disconnect rejected: closeConnection rejected and the entry is still cached
C16_Witness ==
    \E o \in CloseOps :
        /\ ops[o].pc = "done"
        /\ ops[o].outcome = "rejected"
        /\ connections[ops[o].url] = ops[o].existing

\* C17: closeAllConnections has called disconnect on every client that was
\* cached when it was called, whatever the individual disconnects answer.
C17_CloseAllDisconnectsEvery ==
    \A o \in CloseAllOps : ops[o].snapshot \subseteq disconnected

C17_Witness ==
    \E o \in CloseAllOps :
        /\ Cardinality(ops[o].snapshot) = 2
        /\ ops[o].outcome = "rejected"
        /\ ops[o].snapshot \subseteq disconnected

\* C18: a finished closeAllConnections has returned and none of the clients
\* that were cached when it was called is still in the cache.
C18_CloseAllEmptiesCache ==
    \A o \in CloseAllOps :
        ops[o].pc = "done" =>
            /\ ops[o].outcome = "returned"
            /\ ops[o].snapshot \cap Cached = {}

\* a disconnect rejected: closeAllConnections rejected, the cache was not
\* cleared and a following getConnection got the disconnected client
C18_Witness ==
    \E o \in CloseAllOps, q \in GetOps :
        /\ ops[o].outcome = "rejected"
        /\ q > o
        /\ ops[q].existing \in ops[o].snapshot
        /\ ops[q].client = ops[q].existing

----------------------------------------------------------------------------
(* The server selection's specification: one call of                       *)
(* exploreAndEnrichServices with every combination of category, maxServers *)
(* and isUnsafeDirectAccess, the explorations run as in SpecEnrich.        *)

FilterMaxServers == {0, 1, DefaultMaxServers}
FilterCategories == {NoCategory, CatAI, CatLowerAI}
FilterPricingOutcomes ==
    {Returns(Envelope("{items:[svc1,svc2]}")), Throws(Err("remote failure"))}
FilterPaymentOutcomes ==
    {Returns(Envelope("[mainnet,sepolia]")), Throws(Err("remote failure"))}
FilterConnectOutcomes == {Returns(Undefined), Throws(Err("remote failure"))}
FilterDisconnectOutcomes == {Returns(Undefined)}

FilterNext ==
    \/ \E servers \in ServerLists(MaxServers), category \in FilterCategories,
          maxServers \in FilterMaxServers, isUnsafeDirectAccess \in BOOLEAN :
          /\ runs = 0
          /\ exploreAndEnrichServices(servers, category, maxServers, isUnsafeDirectAccess)
    \/ \E i \in DOMAIN task, ok \in BOOLEAN : ExploreConnectSSE(i, ok)
    \/ \E i \in DOMAIN task, outcome \in FilterConnectOutcomes :
          ExploreConnectStreamable(i, outcome)
    \/ \E i \in DOMAIN task, outcome \in FilterPricingOutcomes :
          ExplorePricing(i, "pricing-listing", outcome)
    \/ \E i \in DOMAIN task, outcome \in FilterPricingOutcomes :
          ExplorePricing(i, "price-listing", outcome)
    \/ \E i \in DOMAIN task, outcome \in FilterPaymentOutcomes :
          ExplorePaymentMethods(i, outcome)
    \/ \E i \in DOMAIN task, outcome \in FilterDisconnectOutcomes :
          ExploreDisconnect(i, outcome)
    \/ Aggregate

SpecFilter == EnrichInit /\ [][FilterNext]_vars

----------------------------------------------------------------------------
(* Claims about the server selection *)

\* the server has the category, in any case, in its categories or description
HasCategory(server) ==
    \/ includes(toLowerCase(server.categories), toLowerCase(run.category))
    \/ includes(toLowerCase(server.description), toLowerCase(run.category))
\* the list the truncation works on
FilteredServers ==
    IF run.category # NoCategory THEN SelectSeq(run.servers, HasCategory)
    ELSE run.servers
Called == run.phase # "idle"

C20_CategoryFilter ==
    (Called /\ run.category # NoCategory /\ ~run.isUnsafeDirectAccess) =>
        /\ \A i \in DOMAIN run.limitedServers : HasCategory(run.limitedServers[i])
        /\ DOMAIN task = DOMAIN run.limitedServers
        /\ \A u \in URLs :
              connections[u] # NoClient =>
                 \E k \in DOMAIN run.servers :
                    HasCategory(run.servers[k]) /\ run.servers[k].mcpServerUrl = u
        /\ registry.returned =>
              registry.totalServersExplored <=
                 Cardinality({k \in DOMAIN run.servers : HasCategory(run.servers[k])})
        /\ run.maxServers >= Len(run.servers) =>
              \A k \in DOMAIN run.servers :
                 HasCategory(run.servers[k]) =>
                    \E i \in DOMAIN run.limitedServers :
                       run.limitedServers[i] = run.servers[k]

\* gamma has the category nowhere and is left out; beta has it in lower
\* case in its description only and is explored
C20_Witness ==
    /\ Called
    /\ run.category = CatAI
    /\ ~run.isUnsafeDirectAccess
    /\ run.servers = <<ServerBeta, ServerGamma>>
    /\ run.limitedServers = <<ServerBeta>>
    /\ connections["u2"] # NoClient
    /\ connections["u1"] = NoClient
    /\ registry.returned
    /\ registry.totalServersExplored = 1

----------------------------------------------------------------------------
(* Claims about the registry's services *)

\* the first comma-segment of the server's category string, trimmed, or
\* 'uncategorized'
DerivedCategory(s) ==
    LET first == trim(FirstSegment(s.serverInfo.categories))
    IN IF first = <<>> THEN Uncategorized ELSE first
\* the services of the explorations that succeeded, in the servers' order
RECURSIVE ServicesUpTo(_)
ServicesUpTo(n) ==
    IF n = 0 THEN <<>>
    ELSE ServicesUpTo(n - 1) \o (IF task[n].failed THEN <<>> ELSE task[n].services)
InCategory(s) == DerivedCategory(s) = run.category

\* C21: with a category (and with or without direct access) the returned
\* services are the enriched services whose derived category is the category
\* itself, letter for letter; every other service of an explored server is
\* left out.
C21_ServicesHaveExactCategory ==
    (registry.returned /\ run.category # NoCategory) =>
        /\ \A k \in DOMAIN registry.services :
              /\ registry.services[k].category = run.category
              /\ InCategory(registry.services[k])
        /\ registry.services = SelectSeq(ServicesUpTo(Len(task)), InCategory)

\* direct access, alpha ("AI,Data") and beta ("PDF") both explored with
\* success: alpha's services are returned, beta's are not
C21_Witness ==
    /\ registry.returned
    /\ run.category = CatAI
    /\ run.isUnsafeDirectAccess
    /\ run.limitedServers = <<ServerAlpha, ServerBeta>>
    /\ ~task[1].failed /\ ~task[2].failed
    /\ Len(task[2].services) = 2
    /\ Len(registry.services) = 2
    /\ \A k \in DOMAIN registry.services :
          registry.services[k].serverInfo.serverName = "alpha"

----------------------------------------------------------------------------
(* Claims about the per-item enrichment *)

\* the payment-method tag of a raw item
TagOf(item) == Prop(Prop(item, "price"), "paymentMethod")
\* the rows whose tag is the item's, string for string
RowsFor(item, rows) ==
    {k \in 1..Len(rows) :
        /\ IsString(TagOf(item))
        /\ Prop(rows[k], "paymentMethod") = TagOf(item)}
\* the exploration fetched well-formed payment rows for well-formed items
Enriched(i) ==
    /\ IsArray(task[i].paymentMethods)
    /\ \A k \in 1..Len(task[i].items) :
          /\ IsObjectLike(task[i].items[k])
          /\ IsObjectLike(Prop(task[i].items[k], "price"))
DisconnectFailed(i) ==
    /\ task[i].pc = "settled"
    /\ task[i].error = Err("disconnect failure")

\* C22: an item whose payment-method tag equals no row's tag still becomes
\* an enriched service, with an empty wallet address under its own tag and
\* executionReady false; the missing row is no failure of the server (the
\* exploration fails only when its disconnect does) and adds no error entry.
C22_NoMatchingRowIsNoError ==
    \A i \in Explored :
        Enriched(i) =>
            /\ task[i].failed => DisconnectFailed(i)
            /\ ~task[i].failed =>
                  /\ Len(task[i].services) = Len(task[i].items)
                  /\ \A k \in 1..Len(task[i].items) :
                        RowsFor(task[i].items[k], task[i].paymentMethods.elems) = {} =>
                           /\ task[i].services[k].id = Prop(task[i].items[k], "id")
                           /\ task[i].services[k].paymentInfo =
                                 [walletAddress |-> Str(""),
                                  paymentMethod |-> TagOf(task[i].items[k])]
                           /\ task[i].services[k].executionReady = FALSE
                  /\ registry.returned =>
                        /\ ErrorEntriesOf(i) = {}
                        /\ run.category = NoCategory =>
                              Cardinality(ServicesOf(i)) = Len(task[i].items)

\* svc2 carries UNKNOWN_TAG, the rows are mainnet and sepolia
C22_Witness ==
    \E i \in Explored :
        /\ registry.returned
        /\ run.category = NoCategory
        /\ Enriched(i)
        /\ ~task[i].failed
        /\ Len(task[i].paymentMethods.elems) = 2
        /\ RowsFor(task[i].items[2], task[i].paymentMethods.elems) = {}
        /\ RowsFor(task[i].items[1], task[i].paymentMethods.elems) # {}
        /\ task[i].services[2].paymentInfo.paymentMethod = Str("UNKNOWN_TAG")
        /\ ~task[i].services[2].executionReady
        /\ task[i].services[1].executionReady
        /\ \E k \in ServicesOf(i) : registry.services[k] = task[i].services[2]
        /\ ErrorEntriesOf(i) = {}

----------------------------------------------------------------------------
(* The per-item enrichment's specification: one call of                    *)
(* exploreAndEnrichServices on up to MaxItemServers servers whose listings *)
(* and payment rows vary: items with and without a matching row, rows with *)
(* and without a wallet address.                                           *)

ItemsPricingOutcomes ==
    {Returns(Envelope("{items:[svc1,svc2]}")), Returns(Envelope("{items:[svc1,svc4]}")),
     Returns(Envelope("{items:[svc1]}")), Returns(Envelope("{items:[]}")),
     Throws(Err("remote failure"))}
ItemsPaymentOutcomes ==
    {Returns(Envelope("[mainnet,sepolia]")), Returns(Envelope("[mainnet-empty-wallet]")),
     Returns(Envelope("[sepolia]")), Throws(Err("remote failure"))}

ItemsNext ==
    \/ \E servers \in ServerLists(MaxItemServers) :
          /\ runs = 0
          /\ exploreAndEnrichServices(servers, NoCategory, DefaultMaxServers, FALSE)
    \/ \E i \in DOMAIN task, ok \in BOOLEAN : ExploreConnectSSE(i, ok)
    \/ \E i \in DOMAIN task, outcome \in FilterConnectOutcomes :
          ExploreConnectStreamable(i, outcome)
    \/ \E i \in DOMAIN task, outcome \in ItemsPricingOutcomes :
          ExplorePricing(i, "pricing-listing", outcome)
    \/ \E i \in DOMAIN task, outcome \in ItemsPricingOutcomes :
          ExplorePricing(i, "price-listing", outcome)
    \/ \E i \in DOMAIN task, outcome \in ItemsPaymentOutcomes :
          ExplorePaymentMethods(i, outcome)
    \/ \E i \in DOMAIN task, outcome \in DisconnectOutcomes :
          ExploreDisconnect(i, outcome)
    \/ Aggregate

SpecItems == EnrichInit /\ [][ItemsNext]_vars

----------------------------------------------------------------------------
(* Claims about matched items *)

\* the first row carrying the item's tag
FirstRowFor(item, rows) ==
    rows[CHOOSE k \in RowsFor(item, rows) : \A j \in RowsFor(item, rows) : k <= j]
\* the exploration returned services, and each of its items has a row
AllMatched(i) ==
    /\ Enriched(i)
    /\ ~task[i].failed
    /\ \A k \in 1..Len(task[i].items) :
          RowsFor(task[i].items[k], task[i].paymentMethods.elems) # {}

----------------------------------------------------------------------------
(* Claims about the release of the explorations' connections *)

ToolCallSteps == {"pricing-listing", "price-listing", "payment-methods"}

\* C24: an exploration calls disconnect at most once and never before its
\* last tool call; once it has settled it has called disconnect exactly once
\* on the connection it obtained, whether it succeeded or failed at the
\* price listing or the payment methods, and never when getConnection failed.
C24_ExplorationDisconnectsOnce ==
    \A i \in Explored :
        /\ task[i].disconnects <= 1
        /\ task[i].pc \in {"sse", "streamable"} \cup ToolCallSteps =>
              task[i].disconnects = 0
        /\ task[i].pc \in {"disconnect", "settled"} =>
              IF task[i].client = NoClient
              THEN task[i].pc = "settled" /\ task[i].failed /\ task[i].disconnects = 0
              ELSE task[i].disconnects = 1 /\ task[i].client \in disconnected

\* one exploration failed at the payment methods and disconnected once, the
\* other never got a connection
C24_Witness ==
    \E i, j \in Explored :
        /\ task[i].pc = "settled"
        /\ task[i].error = Err("Invalid payment methods response format")
        /\ task[i].disconnects = 1
        /\ task[i].client \in disconnected
        /\ task[j].pc = "settled"
        /\ task[j].client = NoClient
        /\ task[j].disconnects = 0
        /\ registry.returned

----------------------------------------------------------------------------
(* Claims about the arguments executeService hands to its collaborators *)

\* C25: the URL executeService hands to getConnection is the URL of the
\* service's own server, service.serverInfo.mcpServerUrl, which validation
\* checked to be non-empty.
C25_ConnectsToServiceUrl ==
    \A c \in CallIds :
        calls[c].getConnectionCalls > 0 =>
            /\ calls[c].connectionUrl = calls[c].service.serverInfo.mcpServerUrl
            /\ calls[c].connectionUrl # ""

\* a service of the server at u1 was executed over a connection to u2
C25_Witness ==
    \E c \in CallIds :
        /\ calls[c].pc = "done"
        /\ calls[c].result.success
        /\ calls[c].service.serverInfo.mcpServerUrl = "u1"
        /\ calls[c].connectionUrl = "u2"
        /\ connections["u2"] = calls[c].client
        /\ connections["u1"] = NoClient

----------------------------------------------------------------------------
(* The signing specification: up to MaxSignings calls of                   *)
(* getNetworkFromPaymentMethod and createSignedTransaction, one after the  *)
(* other, in both implementations.                                         *)

SignImpls == {"utils", "service"}
HeaderOutcomes ==
    {Returns(Str("0xheader")), Throws(Err("header builder failure")), Throws(NonError)}

SignNext ==
    \/ \E impl \in SignImpls, paymentMethod \in PayMethods :
          /\ signing.attempt < MaxSignings
          /\ networkOf(impl, paymentMethod)
    \/ \E impl \in SignImpls, paymentMethod \in PayMethods, priceOk, keyOk \in BOOLEAN :
          /\ signing.attempt < MaxSignings
          /\ createSignedTransaction(impl, paymentMethod, priceOk, keyOk)
    \/ \E outcome \in HeaderOutcomes : SignHeader(outcome)

SpecSign == EnrichInit /\ [][SignNext]_vars

----------------------------------------------------------------------------
(* Claims about the signing helpers, checked under SpecSign *)

KnownPaymentMethod(paymentMethod) ==
    paymentMethod \in {"USDC_BASE_MAINNET", "USDC_BASE_SEPOLIA"}

\* C26: getNetworkFromPaymentMethod is a closed enumeration: 'base' for
\* USDC_BASE_MAINNET, 'base-sepolia' for USDC_BASE_SEPOLIA, and for every
\* other tag it throws 'Unsupported payment method' and returns no network.
C26_NetworkIsClosedEnumeration ==
    signing.kind = "network" =>
       IF signing.paymentMethod = "USDC_BASE_MAINNET"
       THEN signing.network = Returns("base")
       ELSE IF signing.paymentMethod = "USDC_BASE_SEPOLIA"
       THEN signing.network = Returns("base-sepolia")
       ELSE /\ signing.network.throws
            /\ signing.network.e = Err(UnsupportedPaymentMethod)

\* the service's getNetworkFromPaymentMethod has answered for a tag that is
\* none of the two
C26_Witness ==
    /\ signing.kind = "network"
    /\ signing.impl = "service"
    /\ ~KnownPaymentMethod(signing.paymentMethod)

\* C27: a createSignedTransaction call that failed, whatever failed inside,
\* rejected with an error whose message is exactly 'Failed to create signed
\* transaction'.
C27_SigningFailureIsNarrowed ==
    (signing.kind = "sign" /\ signing.outcome = "rejected") =>
       signing.error = Err(FailedToCreateSignedTransaction)

\* a createSignedTransaction call of the exported function got past its
\* synchronous statements and its header builder rejected
C27_Witness ==
    /\ signing.kind = "sign"
    /\ signing.impl = "utils"
    /\ signing.outcome = "rejected"
    /\ signing.cause = Err("header builder failure")

----------------------------------------------------------------------------
(* Claims about the results of verifyPayment and settlePayment, checked    *)
(* under SpecPay                                                           *)

\* the result that reports the caught value e under the message m
CaughtResult(m, e) ==
    [success |-> FALSE, message |-> m, responseHeader |-> "", payload |-> Undefined,
     error |-> CaughtMessage(e)]

----------------------------------------------------------------------------
(* The parameter validation specification: validateServiceParams on every  *)
(* pair of declared and provided parameters of up to MaxParams names, each *)
(* side possibly undefined or null.                                        *)

ParamNames == {"q", "limit", "lang"}
KeyLists ==
    {keys \in UNION {[1..n -> ParamNames] : n \in 0..MaxParams} :
        \A i, j \in 1..Len(keys) : keys[i] = keys[j] => i = j}
ParamObjects == {Undefined, Null} \cup {Keyed(keys) : keys \in KeyLists}

ParamsNext ==
    \E params \in ParamObjects, providedParams \in ParamObjects :
       validateServiceParams(params, providedParams)

SpecParams == EnrichInit /\ [][ParamsNext]_vars

----------------------------------------------------------------------------
(* Claims about validateServiceParams, checked under SpecParams *)

\* the set of names of a side; undefined and null have none
NamesOf(v) ==
    IF v \in {Undefined, Null} THEN {} ELSE {v.keys[i] : i \in 1..Len(v.keys)}

\* C29: validateServiceParams returns exactly when the provided names are
\* the declared names; it throws 'Missing required parameter' for a declared
\* name when one is missing, and 'Extra parameter provided' for a provided
\* name only when none is missing.
C29_AcceptsExactlyDeclaredNames ==
    LET declared == NamesOf(validation.params)
        provided == NamesOf(validation.providedParams)
    IN validation.called =>
          /\ ~validation.outcome.throws <=> declared = provided
          /\ declared \ provided # {} =>
                /\ validation.outcome.throws
                /\ validation.outcome.e \in
                      {Err("Missing required parameter: " \o k) : k \in declared \ provided}
          /\ (declared \ provided = {} /\ provided \ declared # {}) =>
                /\ validation.outcome.throws
                /\ validation.outcome.e \in
                      {Err("Extra parameter provided: " \o k) : k \in provided \ declared}

\* a call with a declared name missing and an undeclared name provided
C29_Witness ==
    /\ validation.called
    /\ NamesOf(validation.params) \ NamesOf(validation.providedParams) # {}
    /\ NamesOf(validation.providedParams) \ NamesOf(validation.params) # {}
    /\ validation.outcome.throws

----------------------------------------------------------------------------
(* Claims about the order of executeService's collaborators, checked under *)
(* SpecExec                                                                *)

\* the price listing of the call answered and holds the requested item
Reverified(c) ==
    /\ ~calls[c].listing.throws
    /\ ListingHasItem(calls[c].listing.v, calls[c].request.serviceId)

\* C30: in every executeService call the collaborators are called in the
\* order getConnection, price-listing, signPaymentTransaction, make-purchase,
\* disconnect, each at most once; make-purchase only after the listing held
\* the item and the signing returned; the payment is signed for the
\* service's amount, wallet and payment method and the request's key; the
\* purchase arguments are the request's id and params, the service's payment
\* method and the signedTransaction that signing returned.
C30_CollaboratorOrder ==
    \A c \in CallIds :
        LET call == calls[c]
            purchased == Len(call.toolCalls) = 2
        IN /\ call.toolCalls \in {<<>>, <<"price-listing">>,
                                  <<"price-listing", "make-purchase">>}
           /\ call.getConnectionCalls <= 1 /\ call.signCalls <= 1
           /\ call.disconnectCalls <= 1
           /\ call.toolCalls # <<>> =>
                 call.getConnectionCalls = 1 /\ call.client # NoClient
           /\ call.signCalls = 1 =>
                 /\ call.toolCalls # <<>>
                 /\ Reverified(c)
                 /\ call.signArgs =
                       [amount |-> call.service.price.amount,
                        recipientAddress |-> call.service.paymentInfo.walletAddress,
                        paymentMethod |-> call.service.price.paymentMethod,
                        pkpPrivateKey |-> call.request.pkpPrivateKey]
           /\ (call.signCalls = 0 \/ call.pc = "sign") => ~purchased
           /\ purchased =>
                 /\ call.signCalls = 1
                 /\ Reverified(c)
                 /\ call.signedTransaction # Undefined
                 /\ call.purchaseArgs =
                       [itemId |-> call.request.serviceId,
                        params |-> call.request.params,
                        paymentMethod |-> call.service.price.paymentMethod,
                        signedTransaction |-> call.signedTransaction.signedTransaction]
           /\ call.disconnectCalls = 1 =>
                 /\ call.pc \in {"disconnect", "done"}
                 /\ call.getConnectionCalls = 1
           /\ call.pc \in {"sse", "streamable", "verify", "sign", "purchase"} =>
                 call.disconnectCalls = 0

\* a call went through all five collaborators and returned
C30_Witness ==
    \E c \in CallIds :
        /\ calls[c].pc = "done"
        /\ calls[c].toolCalls = <<"price-listing", "make-purchase">>
        /\ calls[c].signCalls = 1
        /\ calls[c].disconnectCalls = 1
        /\ calls[c].purchaseArgs.signedTransaction = Str("0xsigned")

----------------------------------------------------------------------------
(* Claims about the order of an exploration's tool calls, checked under    *)
(* SpecEnrich                                                              *)

\* the call answered, and what it answered parses to an object with an
\* items array
GoodListing(outcome) ==
    /\ ~outcome.throws
    /\ LET parsed == Registry_parseToolResult(outcome.v)
       IN parsed.t = "object" /\ "items" \in DOMAIN parsed.props
             /\ parsed.props.items.t = "array"

\* C31: in every step of an exploration, 'pricing-listing' is the first tool
\* called, 'price-listing' is called only after a 'pricing-listing' that
\* threw or answered another shape, payment-methods is called only in the
\* step in which one of the two answered a price listing, and when
\* 'price-listing' does not either the exploration fails with 'No compatible
\* pricing tool found on server' and goes to its disconnect.
C31_ListingBeforePaymentMethods ==
    [][\A i \in DOMAIN task :
          (runs' = runs /\ task'[i].pc # task[i].pc) =>
             LET before == task[i].pc
                 after == task'[i].pc
                 good == GoodListing(task'[i].listing)
             IN /\ after = "pricing-listing" => before \in {"sse", "streamable"}
                /\ after = "price-listing" => before = "pricing-listing" /\ ~good
                /\ after = "payment-methods" =>
                      /\ before \in {"pricing-listing", "price-listing"}
                      /\ good
                /\ before = "pricing-listing" =>
                      after = (IF good THEN "payment-methods" ELSE "price-listing")
                /\ before = "price-listing" =>
                      IF good THEN after = "payment-methods"
                      ELSE /\ after = "disconnect"
                           /\ task'[i].failed
                           /\ task'[i].error =
                                 Err("No compatible pricing tool found on server")
                /\ before = "payment-methods" => after = "disconnect"]_vars

\* one exploration found no price listing under either name and failed, the
\* other was answered one and went on to the payment methods
C31_Witness ==
    \E i, j \in Explored :
        /\ task[i].pc = "settled"
        /\ ~GoodListing(task[i].listing)
        /\ task[i].error = Err("No compatible pricing tool found on server")
        /\ task[j].pc = "settled"
        /\ GoodListing(task[j].listing)
        /\ task[j].paymentMethods # Undefined

----------------------------------------------------------------------------
(* Claims about the order of executeService's validity checks, checked     *)
(* under SpecExec                                                          *)

\* C32: a started call whose service has executionReady=false has returned
\* 'not ready for execution' whatever its other fields; otherwise an empty
\* walletAddress gives 'missing wallet address'; otherwise an empty
\* mcpServerUrl gives 'missing server URL'; otherwise a negative price.amount
\* gives 'invalid price'; a service that passes the four, a price of 0
\* included, goes on to getConnection.
C32_FirstFailingCheckReported ==
    \A c \in Started :
        LET service == calls[c].service
            reported == calls[c].pc = "done" /\ calls[c].getConnectionCalls = 0
                           /\ calls[c].outcome = "returned" /\ ~calls[c].result.success
        IN IF ~service.executionReady
           THEN reported /\ calls[c].result.error = NotReadyForExecution
           ELSE IF service.paymentInfo.walletAddress = Str("")
           THEN reported /\ calls[c].result.error = MissingWalletAddress
           ELSE IF service.serverInfo.mcpServerUrl = ""
           THEN reported /\ calls[c].result.error = MissingServerUrl
           ELSE IF service.price.amount.n < 0
           THEN reported /\ calls[c].result.error = InvalidPrice
           ELSE calls[c].getConnectionCalls = 1

\* a service with an empty wallet, an empty URL and a negative price was
\* refused for its wallet
C32_Witness ==
    \E c \in Started :
        /\ calls[c].service.executionReady
        /\ calls[c].service.paymentInfo.walletAddress = Str("")
        /\ calls[c].service.serverInfo.mcpServerUrl = ""
        /\ calls[c].service.price.amount = Num(-1)
        /\ calls[c].result.error = MissingWalletAddress

----------------------------------------------------------------------------
(* The parsing specification: up to MaxParses tool results, each handed to *)
(* both parseToolResult.                                                   *)

ParseTexts ==
    {"{items:[svc1,svc2]}", "{items:[]}", "{items:'none'}", "[mainnet,sepolia]",
     "{toolResult:'Payment failed'}", "{result:'success'}", "null", "42",
     "not json", ""}
ToolResults ==
    {Envelope(text) : text \in ParseTexts} \cup {Str(text) : text \in ParseTexts}
        \cup {Obj([items |-> Arr(<<ItemSvc1>>)]), Arr(<<RowMainnet>>), Num(42), Null,
              Undefined, EmptyEnvelope, Obj([content |-> Str("text")]),
              Obj([content |-> Arr(<<Obj([text |-> Num(1)])>>)]),
              Obj([content |-> Arr(<<Null>>)])}

ParseNext ==
    \E result \in ToolResults :
       /\ parsing.count < MaxParses
       /\ parseToolResult(result)

SpecParse == EnrichInit /\ [][ParseNext]_vars

----------------------------------------------------------------------------
(* Claims about tool-result parsing, checked under SpecParse *)

\* the inner text of an envelope {content: [{text}]}
InnerText(result) == result.props.content.elems[1].props.text
IsEnvelope(result) ==
    /\ result.t = "object"
    /\ "content" \in DOMAIN result.props
    /\ result.props.content.t = "array"
    /\ Len(result.props.content.elems) > 0
    /\ result.props.content.elems[1].t = "object"
    /\ "text" \in DOMAIN result.props.content.elems[1].props
    /\ InnerText(result).t = "string"
\* the JSON-parsed value of a string, or the string itself when it is no JSON
ParsedOrRaw(string) ==
    IF JSONParse(string.s).ok THEN JSONParse(string.s).v ELSE string

\* C33: the registry's and the execution service's parseToolResult return
\* the same value for every tool result: for an envelope the JSON-parsed
\* inner text, or the raw inner text when it is no JSON; for a bare string
\* its JSON-parsed value, or the string itself; anything else as it is.
C33_ParsersAgree ==
    parsing.count > 0 =>
       LET expected == IF IsEnvelope(parsing.result)
                       THEN ParsedOrRaw(InnerText(parsing.result))
                       ELSE IF parsing.result.t = "string"
                       THEN ParsedOrRaw(parsing.result)
                       ELSE parsing.result
       IN /\ parsing.registry = parsing.execution
          /\ parsing.registry = expected
          /\ parsing.execution = expected

\* an envelope whose text is no JSON came back whole from the registry's
\* parser and as its text from the execution service's
C33_Witness ==
    /\ parsing.count > 0
    /\ parsing.result = Envelope("not json")
    /\ parsing.registry = Envelope("not json")
    /\ parsing.execution = Str("not json")

----------------------------------------------------------------------------
(* Claims about what settlePayment reports, checked under SpecPay *)

\* C34: settlePayment reports success=true only if the facilitator settled
\* the payment; when the settle call threw or answered a response that
\* reports failure, settlePayment reports success=false and the attempt ends
\* with the failed record.
C34_SettleSuccessMeansSettled ==
    (payment.settleCalls > 0 /\ payment.pc = "done") =>
       /\ payment.settleResult.success => SettleSucceeded
       /\ ~SettleSucceeded =>
             /\ ~payment.settleResult.success
             /\ payment.transaction.amount = "0"

\* the facilitator answered settle with success=false and settlePayment
\* reported success=true
C34_Witness ==
    /\ payment.pc = "done"
    /\ payment.settleCalls = 1
    /\ payment.settled = Returns([success |-> FALSE])
    /\ payment.settleResult.success
    /\ payment.settleResult.message = "Payment settled successfully"

----------------------------------------------------------------------------
(* Claims about the clients the connection cache holds, checked under      *)
(* SpecExec                                                                *)

\* C35: the cache maps no URL to a client on which disconnect() has been
\* called, and a call that obtained its client from getConnection holds none
\* that an earlier call disconnected.
C35_CacheHoldsNoDisconnectedClient ==
    /\ \A u \in URLs :
          connections[u] # NoClient => connections[u] \notin disconnected
    /\ \A c \in CallIds :
          calls[c].pc = "verify" => calls[c].client \notin disconnected

\* the second call was handed, from the cache, the client that the first
\* call had connected and disconnected
C35_Witness ==
    \E u \in URLs :
        /\ calls[2].pc = "verify"
        /\ calls[2].request.serverUrl = u
        /\ calls[2].client = connections[u]
        /\ calls[2].client.o = "execute"
        /\ calls[2].client.i = 1
        /\ calls[2].client \in disconnected

----------------------------------------------------------------------------
(* Claims about the use of released clients, checked under SpecExec *)

\* the calls that have a callTool in flight on their client
Calling == {c \in CallIds : calls[c].pc \in {"verify", "purchase"}}

\* C36: callTool is never invoked on a client after disconnect() has been
\* called on that client: no price-listing or make-purchase call is in
\* flight on a disconnected client.
C36_NoCallAfterDisconnect ==
    \A c \in Calling : calls[c].client \notin disconnected

\* the second call has sent make-purchase on the client that the first call
\* disconnected
C36_Witness ==
    /\ calls[2].pc = "purchase"
    /\ calls[2].toolCalls = <<"price-listing", "make-purchase">>
    /\ calls[2].client = ExecuteClient(1, "sse")
    /\ ExecuteClient(1, "sse") \in disconnected

----------------------------------------------------------------------------
(* Claims about the item executeService purchases, checked under SpecExec *)

\* C37: on every make-purchase call the itemId sent, which is the id that
\* was re-verified, is the id of the service whose price and wallet were
\* signed for: a request whose serviceId is not service.id never leads to a
\* purchase.
C37_PurchasesThePricedItem ==
    \A c \in CallIds :
        Len(calls[c].toolCalls) = 2 =>
            /\ calls[c].purchaseArgs.itemId = calls[c].request.serviceId
            /\ Str(calls[c].request.serviceId) = calls[c].service.id

\* the item 'svc2' was purchased with a payment signed for the price and the
\* wallet of the service 'svc1'
C37_Witness ==
    \E c \in CallIds :
        /\ calls[c].toolCalls = <<"price-listing", "make-purchase">>
        /\ calls[c].purchaseArgs.itemId = "svc2"
        /\ calls[c].service.id = Str("svc1")
        /\ calls[c].signArgs.amount = calls[c].service.price.amount
        /\ calls[c].signArgs.recipientAddress = calls[c].service.paymentInfo.walletAddress

----------------------------------------------------------------------------
(* Claims about the order of the registry's contents, checked under        *)
(* SpecEnrich, where the explorations settle in every order                *)

\* the error entries of the explorations that failed, in the servers' order
RECURSIVE ErrorsUpTo(_)
ErrorsUpTo(n) ==
    IF n = 0 THEN <<>>
    ELSE ErrorsUpTo(n - 1) \o
            (IF task[n].failed
             THEN <<[serverName |-> run.limitedServers[n].name,
                     error |-> IF task[n].error.isError THEN task[n].error.message
                               ELSE "Unknown error"]>>
             ELSE <<>>)
SameCategory(s) == s.category = run.category

\* C38: a returned registry is determined by what the servers answered, not
\* by the order in which the explorations settled: its services are the
\* succeeded servers' services in the order of the explored list (those of
\* the category when one was asked for), each server's in the order of its
\* price listing, its error entries are the failed servers' in list order,
\* and its counts are those of the list.
C38_RegistryInServerOrder ==
    registry.returned =>
        LET n == Len(run.limitedServers)
            all == ServicesUpTo(n)
        IN /\ registry.services =
                 (IF run.category = NoCategory THEN all ELSE SelectSeq(all, SameCategory))
           /\ registry.errors = ErrorsUpTo(n)
           /\ registry.totalServersExplored = n
           /\ registry.totalServicesFound = Len(all)
           /\ \A i \in Succeeded :
                 /\ Len(task[i].services) = Len(task[i].items)
                 /\ \A k \in 1..Len(task[i].items) :
                       /\ task[i].services[k].id = Prop(task[i].items[k], "id")
                       /\ task[i].services[k].serverInfo.serverName =
                             run.limitedServers[i].name

\* two servers were explored and each delivered two services: the first
\* server's come first in the registry
C38_Witness ==
    /\ registry.returned
    /\ Len(run.limitedServers) = 2
    /\ run.limitedServers[1].name # run.limitedServers[2].name
    /\ Succeeded = {1, 2}
    /\ Len(registry.services) = 4
    /\ registry.services[2].serverInfo.serverName = run.limitedServers[1].name
    /\ registry.services[3].serverInfo.serverName = run.limitedServers[2].name

----------------------------------------------------------------------------
(* Discovery followed by execution against one server whose responses do   *)
(* not change: the server is deployed with the listing tool names it       *)
(* implements, exploreAndEnrichServices builds the registry from it, and   *)
(* executeService is then called with the registry's execution-ready       *)
(* services.                                                               *)

RemoteTools == {{"pricing-listing"}, {"price-listing"}, {"pricing-listing", "price-listing"}}
RemoteListings == {"{items:[svc1,svc4]}", "{items:[svc1]}"}
RemotePaymentMethods == Returns(Envelope("[mainnet,sepolia]"))
ReadyServices ==
    IF registry.returned
    THEN {k \in DOMAIN registry.services : registry.services[k].executionReady}
    ELSE {}

AgreeNext ==
    \/ \E tools \in RemoteTools, listing \in RemoteListings : Deploy(tools, listing)
    \/ /\ runs = 0
       /\ remote.deployed
       /\ exploreAndEnrichServices(<<ServerAlpha>>, NoCategory, DefaultMaxServers, FALSE)
    \/ \E i \in DOMAIN task : ExploreConnectSSE(i, TRUE)
    \/ \E i \in DOMAIN task :
          ExplorePricing(i, "pricing-listing", RemoteListing("pricing-listing"))
    \/ \E i \in DOMAIN task :
          ExplorePricing(i, "price-listing", RemoteListing("price-listing"))
    \/ \E i \in DOMAIN task : ExplorePaymentMethods(i, RemotePaymentMethods)
    \/ \E i \in DOMAIN task, outcome \in DisconnectOutcomes : ExploreDisconnect(i, outcome)
    \/ Aggregate
    \/ NewExecutionService
    \/ \E c \in CallIds, k \in ReadyServices :
          /\ NextCall(c)
          /\ \A u \in URLs : connections[u] = NoClient \/ c > 1
          /\ executeService(c, RequestFor(registry.services[k]), registry.services[k])
    \/ \E c \in CallIds : ExecuteConnectSSE(c, TRUE)
    \/ \E c \in CallIds : ExecuteVerify(c, RemoteListing("price-listing"))
    \/ \E c \in CallIds, outcome \in SignOutcomes : ExecuteSign(c, outcome)
    \/ \E c \in CallIds, outcome \in ExecPurchaseOutcomes : ExecutePurchase(c, outcome)
    \/ \E c \in CallIds, outcome \in DisconnectOutcomes : ExecuteDisconnect(c, outcome)
    \/ \E c \in CallIds : Retire(c)

SpecAgree == EnrichInit /\ [][AgreeNext]_vars

----------------------------------------------------------------------------
(* Claims about discovery and execution on an unchanging server, checked   *)
(* under SpecAgree                                                         *)

\* C39: on a server whose responses do not change, every execution-ready
\* service of the registry passes executeService's re-verification: once the
\* price listing executeService fetched has been answered, the service was
\* found in it and the call went on to sign the payment, whichever of the
\* accepted listing tool names the server implements.
C39_DiscoveredServicesPassReverification ==
    \A c \in CallIds :
        (remote.deployed /\ calls[c].listing # NotCalled) =>
            /\ ~calls[c].listing.throws
            /\ calls[c].signCalls = 1

\* the server implements 'pricing-listing' only: discovery produced the
\* execution-ready service 'svc1' from it, and executeService, which asks for
\* 'price-listing', ended with the failure of that call
C39_Witness ==
    \E c \in CallIds, k \in ReadyServices :
        /\ remote.tools = {"pricing-listing"}
        /\ registry.services[k].id = Str("svc1")
        /\ calls[c].service = registry.services[k]
        /\ calls[c].request = RequestFor(registry.services[k])
        /\ calls[c].toolCalls = <<"price-listing">>
        /\ calls[c].pc = "done"
        /\ calls[c].listing = Throws(Err("Unknown tool"))
        /\ ~calls[c].result.success
        /\ calls[c].result.error = "Unknown tool"
        /\ calls[c].signCalls = 0

----------------------------------------------------------------------------
(* Termination.  One exploreAndEnrichServices call over up to              *)
(* MaxItemServers servers, then executeService calls on an execution       *)
(* service of its own; every remote operation may resolve or reject.  The  *)
(* fairness condition says that while a remote operation is pending one   *)
(* settles, and that the code waiting for Promise.allSettled goes on once  *)
(* all have settled.                                                       *)

TermListingOutcomes == {Returns(Envelope("{items:[svc1]}")), Throws(Err("remote failure"))}
TermPaymentOutcomes == {Returns(Envelope("[mainnet,sepolia]")), Throws(Err("remote failure"))}
TermSignOutcomes ==
    {Returns([signedTransaction |-> Str("0xsigned")]), Throws(Err("header builder failure"))}
TermPurchaseOutcomes == {Returns(Envelope("{toolResult:'done'}")), Throws(Err("remote failure"))}
TermServices ==
    {ExecService(TRUE, Str("0xW1"), "u1", Num(1), "USDC_BASE_MAINNET"),
     ExecService(FALSE, Str("0xW1"), "u1", Num(1), "USDC_BASE_MAINNET")}

\* a pending remote operation of the exploration of server i settles
ExploreSettles(i) ==
    \/ \E ok \in BOOLEAN : ExploreConnectSSE(i, ok)
    \/ \E outcome \in FilterConnectOutcomes : ExploreConnectStreamable(i, outcome)
    \/ \E outcome \in TermListingOutcomes : ExplorePricing(i, "pricing-listing", outcome)
    \/ \E outcome \in TermListingOutcomes : ExplorePricing(i, "price-listing", outcome)
    \/ \E outcome \in TermPaymentOutcomes : ExplorePaymentMethods(i, outcome)
    \/ \E outcome \in DisconnectOutcomes : ExploreDisconnect(i, outcome)

\* a pending remote operation of the executeService call c settles
ExecuteSettles(c) ==
    \/ \E ok \in BOOLEAN : ExecuteConnectSSE(c, ok)
    \/ \E outcome \in FilterConnectOutcomes : ExecuteConnectStreamable(c, outcome)
    \/ \E outcome \in TermListingOutcomes : ExecuteVerify(c, outcome)
    \/ \E outcome \in TermSignOutcomes : ExecuteSign(c, outcome)
    \/ \E outcome \in TermPurchaseOutcomes : ExecutePurchase(c, outcome)
    \/ \E outcome \in DisconnectOutcomes : ExecuteDisconnect(c, outcome)

TerminateNext ==
    \/ \E servers \in ServerLists(MaxItemServers) :
          /\ runs = 0
          /\ exploreAndEnrichServices(servers, NoCategory, DefaultMaxServers, FALSE)
    \/ \E i \in 1..MaxItemServers : ExploreSettles(i)
    \/ Aggregate
    \/ NewExecutionService
    \/ \E c \in CallIds, service \in TermServices :
          /\ NextCall(c)
          /\ registry.returned
          /\ \A u \in URLs : connections[u] = NoClient \/ c > 1
          /\ executeService(c, RequestFor(service), service)
    \/ \E c \in CallIds : ExecuteSettles(c)
    \/ \E c \in CallIds : Retire(c)

\* the steps that take no new call: a pending operation settles, or the
\* settled explorations are aggregated
Settles ==
    \/ \E i \in 1..MaxItemServers : ExploreSettles(i)
    \/ Aggregate
    \/ \E c \in CallIds : ExecuteSettles(c)

SpecTerminate == EnrichInit /\ [][TerminateNext]_vars /\ WF_vars(Settles)

----------------------------------------------------------------------------
(* Claims about termination, checked under SpecTerminate *)

\* the place of a step in exploreServerServices and in executeService
TaskRank(pc) ==
    CASE pc = "sse" -> 1 [] pc = "streamable" -> 2 [] pc = "pricing-listing" -> 3
      [] pc = "price-listing" -> 4 [] pc = "payment-methods" -> 5
      [] pc = "disconnect" -> 6 [] pc = "settled" -> 7
CallRank(pc) ==
    CASE pc = "idle" -> 0 [] pc = "sse" -> 1 [] pc = "streamable" -> 2
      [] pc = "verify" -> 3 [] pc = "sign" -> 4 [] pc = "purchase" -> 5
      [] pc = "disconnect" -> 6 [] pc = "done" -> 7 [] pc = "retired" -> 8

\* no remote operation is awaited a second time: every step of an exploration
\* or of an execution moves it to a later remote operation
NeverRetries ==
    /\ \A i \in DOMAIN task \cap DOMAIN task' :
          (runs' = runs /\ task'[i] # task[i]) =>
              TaskRank(task'[i].pc) > TaskRank(task[i].pc)
    /\ \A c \in CallIds :
          calls'[c] # calls[c] => CallRank(calls'[c].pc) > CallRank(calls[c].pc)

\* the remote calls one exploration and one execution have made
BoundedRemoteCalls ==
    /\ \A i \in DOMAIN task : task[i].disconnects <= 1
    /\ \A c \in CallIds :
          /\ calls[c].getConnectionCalls <= 1
          /\ calls[c].toolCalls \in
                {<<>>, <<"price-listing">>, <<"price-listing", "make-purchase">>}
          /\ calls[c].signCalls <= 1
          /\ calls[c].disconnectCalls <= 1

\* every call settles after a bounded number of remote calls, none repeated
EveryCallSettles ==
    /\ (run.phase = "exploring") ~> registry.returned
    /\ \A c \in CallIds : (c \in Started) ~> (c \in Finished)
    /\ []BoundedRemoteCalls
    /\ [][NeverRetries]_vars

\* C40: provided every remote operation eventually resolves or rejects,
\* every exploreAndEnrichServices call and every executeService call
\* eventually returns its result, having made a bounded number of remote
\* calls and retried none.
C40_EveryCallReturnsItsResult ==
    /\ (run.phase = "exploring") ~> registry.returned
    /\ \A c \in CallIds :
          (c \in Started) ~> (c \in Finished /\ calls[c].outcome = "returned")
    /\ []BoundedRemoteCalls
    /\ [][NeverRetries]_vars

\* the exploration returned the registry and an executeService call went
\* through every protocol step once; its disconnect rejected, and the call
\* rejected instead of returning the result of the purchase
C40_Witness ==
    \E c \in Finished :
        /\ registry.returned
        /\ calls[c].getConnectionCalls = 1
        /\ calls[c].toolCalls = <<"price-listing", "make-purchase">>
        /\ calls[c].signCalls = 1
        /\ calls[c].disconnectCalls = 1
        /\ calls[c].result.success
        /\ calls[c].outcome = "rejected"
        /\ calls[c].rejection = Err("disconnect failure")

====
